---- MODULE Spec2Model ----
(***************************************************************************)
(* Admin dashboard: the client-side synchronisation logic of the Users     *)
(* page.  The specifications share the variables:                          *)
(*   Spec      the remote data cache (useUsers / useUpdateUserStatus) as   *)
(*             driven by the page: fetches, optimistic status mutation,    *)
(*             rollback and invalidation;                                  *)
(*   ViewSpec  the view-state controller of UsersPage: state initialised   *)
(*             from the URL, URL sync effect, reset-to-page-1 effect and   *)
(*             the debounced search text;                                  *)
(*   LegacyViewSpec  the same controller in the earlier UsersPage;         *)
(*   DebounceSpec    the useDebounce hook rendered on its own under fake   *)
(*             timers, as its test file drives it;                         *)
(*   PrefSpec  the table preferences of a grid (useTablePreferences over   *)
(*             useLocalStorage) across reloads and storage failures;       *)
(*   NetSpec   the network-status monitor (useNetworkStatus) from its      *)
(*             first render on, and the classifier isNetworkError;         *)
(*   BoundarySpec  the ErrorBoundary around a subtree that may fault;      *)
(*   ChipSpec  the chiplist cell renderer of the grid on a list of groups; *)
(*   ActionsSpec   the UserActions of a row and its confirmation dialog;   *)
(*   RenderSpec    the status mutations of the page with the render that   *)
(*             follows the mutation state in a later task.                 *)
(***************************************************************************)
EXTENDS Integers, Sequences, FiniteSets, TLC

VARIABLES
    \* ---- remote data cache (Spec) ----
    cache,            \* query key -> query state of the QueryClient
    viewKey,          \* the key the mounted useUsers observer subscribes to
    serverStatus,     \* backend: user id -> status
    mutation,         \* state of the useUpdateUserStatus mutation
    isOnline,         \* useNetworkStatus state
    navigatorOnLine,  \* platform flag navigator.onLine
    snackbar,         \* variant of the latest notification
    \* ---- view-state controller (ViewSpec) ----
    url,              \* the URL query string, as its parameters
    searchQuery,      \* immediate search text
    statusFilter,
    pagination,       \* [pageIndex, pageSize]
    debouncedSearchQuery,
    timer,            \* the pending debounce timer: NoTimer or the value it will publish
    isInitialMount,   \* ref
    prevSearchQuery,  \* ref
    prevStatusFilter, \* ref
    phase,            \* "rendered" (initialisers ran), "mounted" (effects ran)
    requested,        \* the params useUsers subscribed to in the latest step, in order
    wireTap,          \* whether the requests left on the network are observed
    \* ---- useDebounce on its own (DebounceSpec) ----
    debounceHook,     \* the rendered hook: its arguments, its state and its timer
    fakeClock,        \* the fake timers' clock and what the test has observed
    \* ---- table preferences (PrefSpec) ----
    localStorage,     \* window.localStorage: storage key -> entry
    storageMode,      \* "working", "quota" (setItem throws) or "disabled" (all throw)
    tablePrefs,       \* the mounted useTablePreferences hook and its state
    \* ---- network status (NetSpec) ----
    monitor,          \* the useNetworkStatus hook: its stage and the events since it started
    classified,       \* the latest call of isNetworkError: its inputs and its result
    \* ---- components on their own (BoundarySpec, ChipSpec, ActionsSpec) ----
    boundary,         \* the ErrorBoundary: its state, what it shows and what it logged
    chipCell,         \* a chiplist cell: the value of the cell and what was rendered
    userActions,      \* the UserActions of one row: its dialog and its onToggleStatus calls
    \* ---- status mutations and the render that follows them (RenderSpec) ----
    pageRender        \* the latest render of UsersPage, and the mutations it no longer follows

cacheVars == <<cache, viewKey, serverStatus, mutation, isOnline, navigatorOnLine, snackbar>>
hookVars == <<debounceHook, fakeClock>>
storeVars == <<localStorage, storageMode, tablePrefs>>
netVars == <<monitor, classified>>
componentVars == <<boundary, chipCell, userActions, pageRender>>
controllerVars == <<url, searchQuery, statusFilter, pagination, debouncedSearchQuery, timer,
                    isInitialMount, prevSearchQuery, prevStatusFilter, phase, requested,
                    wireTap>>
pageVars == <<url, searchQuery, statusFilter, pagination, debouncedSearchQuery, timer,
              isInitialMount, prevSearchQuery, prevStatusFilter, phase, requested,
              wireTap, localStorage, storageMode, tablePrefs, monitor, classified,
              boundary, chipCell, userActions, pageRender>>
viewVars == <<url, searchQuery, statusFilter, pagination, debouncedSearchQuery, timer,
              isInitialMount, prevSearchQuery, prevStatusFilter, phase, requested,
              wireTap, debounceHook, fakeClock, localStorage, storageMode, tablePrefs,
              monitor, classified, boundary, chipCell, userActions,
              pageRender>>
vars == <<cache, viewKey, serverStatus, mutation, isOnline, navigatorOnLine, snackbar,
          url, searchQuery, statusFilter, pagination, debouncedSearchQuery, timer,
          isInitialMount, prevSearchQuery, prevStatusFilter, phase, requested,
          wireTap, debounceHook, fakeClock, localStorage, storageMode, tablePrefs,
              monitor, classified, boundary, chipCell, userActions,
              pageRender>>

(***************************************************************************)
(* Data model                                                              *)
(***************************************************************************)
Statuses == {"active", "inactive"}

StatusFilters == {"all", "active", "inactive"}

\* the users of the backend, in the order the backend lists them
AllUsers == <<"u1", "u2">>

UserIds == {AllUsers[i] : i \in 1..Len(AllUsers)}

DefaultPageSize == 10

\* the params tuples (cache keys) the page subscribes to in the cache
\* specification
QueryKeys ==
    [page : {1}, pageSize : {DefaultPageSize}, query : {""}, status : {"all", "active"}]

\* query data: undefined, or a UsersApiResponse { data: { users, totalCount } }
NoData == [defined |-> FALSE, users |-> <<>>, totalCount |-> 0]

\* an error value: null, or an Error with a message (a sequence of characters)
NoError == [isError |-> FALSE, message |-> <<>>]

Error(msg) == [isError |-> TRUE, message |-> msg]

Min(a, b) == IF a < b THEN a ELSE b

(***************************************************************************)
(* Backend: GET /api/users and PATCH /api/users/:id                        *)
(***************************************************************************)
UserRecord(st, u) == [status |-> st[u], userId |-> u]

Matches(k, st, u) == k.status = "all" \/ st[u] = k.status

RECURSIVE FilterUsers(_, _, _)
FilterUsers(k, st, i) ==
    IF i > Len(AllUsers) THEN <<>>
    ELSE (IF Matches(k, st, AllUsers[i]) THEN <<UserRecord(st, AllUsers[i])>> ELSE <<>>)
         \o FilterUsers(k, st, i + 1)

\* the response of fetchUsers(params) when the backend holds statuses st
fetchUsers(k, st) ==
    LET all == FilterUsers(k, st, 1)
        from == (k.page - 1) * k.pageSize + 1
        to == Min(k.page * k.pageSize, Len(all))
    IN [defined |-> TRUE, users |-> SubSeq(all, from, to), totalCount |-> Len(all)]

(***************************************************************************)
(* QueryClient: the state of one query and the operations useUsers and     *)
(* useUpdateUserStatus perform on the cache                                *)
(***************************************************************************)
\* the state a cancelled fetch reverts to: the state when the fetch started
RevertState(q) ==
    [status |-> q.status, data |-> q.data, error |-> q.error,
     isInvalidated |-> q.isInvalidated]

\* the revert state of a query that is not fetching
NoRevert ==
    [status |-> "pending", data |-> NoData, error |-> NoError,
     isInvalidated |-> FALSE]

\* a query that is not in the cache.  The queryFn of useUsers does not pass the
\* AbortSignal on, so the GET of a cancelled fetch stays on the network:
\* superseded tells, where the network is observed (wireTap), that such a
\* request of this key is still unanswered
NoQuery ==
    [status |-> "pending", data |-> NoData, error |-> NoError, isInvalidated |-> FALSE,
     exists |-> FALSE, fetching |-> FALSE, revert |-> NoRevert,
     superseded |-> FALSE]

\* Query.fetch: a fetch already in flight is reused; cancelRefetch replaces it
\* only when the query holds data
StartFetch(q, cancelRefetch) ==
    IF q.fetching /\ ~(cancelRefetch /\ q.data.defined) THEN q
    ELSE [q EXCEPT !.exists = TRUE,
                   !.superseded = q.superseded \/ (wireTap /\ q.fetching),
                   !.fetching = TRUE,
                   !.revert = RevertState(q),
                   !.status = IF ~q.data.defined THEN "pending" ELSE q.status,
                   !.error = IF ~q.data.defined THEN NoError ELSE q.error]

\* elapsed: the staleTime of the QueryClient has passed since the data was
\* written
isStale(q, elapsed) == q.isInvalidated \/ ~q.data.defined \/ elapsed

\* a subscription that starts every stale query from nothing
useUsers_FromScratch(c, k, elapsed) ==
    LET q == [c[k] EXCEPT !.exists = TRUE]
    IN [c EXCEPT ![k] = IF isStale(q, elapsed)
                        THEN StartFetch([q EXCEPT !.data = NoData], FALSE)
                        ELSE q]

\* useQuery subscribing to a key: the query is built if absent and fetched
\* when it has no data or is stale
useUsers(c, k, elapsed) ==
    LET q == [c[k] EXCEPT !.exists = TRUE]
    IN [c EXCEPT ![k] = IF isStale(q, elapsed) THEN StartFetch(q, FALSE) ELSE q]

\* queryClient.setQueryData(key, data): undefined data is ignored
setQueryData(c, k, data) ==
    IF ~data.defined THEN c
    ELSE [c EXCEPT ![k] = [c[k] EXCEPT !.exists = TRUE,
                                        !.data = data,
                                        !.status = "success",
                                        !.error = NoError,
                                        !.isInvalidated = FALSE]]

\* variant: onMutate without the cancellation of the fetches in flight
cancelQueries_Skipped(c) == c

\* queryClient.cancelQueries({ queryKey: userQueryKeys.all })
cancelQueries(c) ==
    [k \in QueryKeys |->
        IF c[k].fetching
        THEN [c[k] EXCEPT !.fetching = FALSE,
                          !.superseded = c[k].superseded \/ wireTap,
                          !.data = c[k].revert.data,
                          !.status = c[k].revert.status,
                          !.error = c[k].revert.error,
                          !.isInvalidated = c[k].revert.isInvalidated,
                          !.revert = NoRevert]
        ELSE c[k]]

\* queryClient.getQueriesData({ queryKey: userQueryKeys.all }): the [key, data]
\* pairs of the queries in the cache; cached is FALSE for a key without a query
getQueriesData(c) ==
    [k \in QueryKeys |-> [data |-> c[k].data, cached |-> c[k].exists]]

\* variant: the updater with the comparison of the user id inverted
OptimisticUpdater_Inverted(old, userId, status) ==
    IF ~old.defined THEN old
    ELSE [old EXCEPT !.users =
            [i \in 1..Len(old.users) |->
                IF old.users[i].userId # userId
                THEN [old.users[i] EXCEPT !.status = status]
                ELSE old.users[i]]]

\* variant: an updater that keeps the matching user only
OptimisticUpdater_MatchingOnly(old, userId, status) ==
    IF ~old.defined THEN old
    ELSE [old EXCEPT !.users =
            [i \in 1..Len(SelectSeq(old.users, LAMBDA user : user.userId = userId)) |->
                [status |-> status, userId |-> userId]]]

\* the updater of the optimistic write
OptimisticUpdater(old, userId, status) ==
    IF ~old.defined THEN old
    ELSE [old EXCEPT !.users =
            [i \in 1..Len(old.users) |->
                IF old.users[i].userId = userId
                THEN [old.users[i] EXCEPT !.status = status]
                ELSE old.users[i]]]

RECURSIVE ApplyToKeys(_, _, _, _)
ApplyToKeys(c, keys, userId, status) ==
    IF keys = {} THEN c
    ELSE LET k == CHOOSE x \in keys : TRUE
         IN ApplyToKeys(
              IF c[k].exists
              THEN setQueryData(c, k, OptimisticUpdater(c[k].data, userId, status))
              ELSE c,
              keys \ {k}, userId, status)

\* queryClient.setQueriesData({ queryKey: userQueryKeys.all }, updater)
setQueriesData(c, userId, status) == ApplyToKeys(c, QueryKeys, userId, status)

\* variant: invalidation of the displayed key only instead of the key family
invalidateQueries_ActiveOnly(c, active) ==
    [k \in QueryKeys |->
        IF ~c[k].exists \/ k # active THEN c[k]
        ELSE StartFetch([c[k] EXCEPT !.isInvalidated = TRUE], TRUE)]

\* queryClient.invalidateQueries({ queryKey: userQueryKeys.all }): every query
\* is marked invalidated, the active one is refetched
invalidateQueries(c, active) ==
    [k \in QueryKeys |->
        IF ~c[k].exists THEN c[k]
        ELSE LET q == [c[k] EXCEPT !.isInvalidated = TRUE]
             IN IF k = active THEN StartFetch(q, TRUE) ELSE q]

(***************************************************************************)
(* Network status: useNetworkStatus and isNetworkError                     *)
(***************************************************************************)
UpperCaseLetters ==
    <<"A","B","C","D","E","F","G","H","I","J","K","L","M",
      "N","O","P","Q","R","S","T","U","V","W","X","Y","Z">>

LowerCaseLetters ==
    <<"a","b","c","d","e","f","g","h","i","j","k","l","m",
      "n","o","p","q","r","s","t","u","v","w","x","y","z">>

\* the lower-case letter of every upper-case letter
LowerCaseOf ==
    [ch \in {UpperCaseLetters[i] : i \in 1..26} |->
        LowerCaseLetters[CHOOSE i \in 1..26 : UpperCaseLetters[i] = ch]]

ToLowerChar(ch) == IF ch \in DOMAIN LowerCaseOf THEN LowerCaseOf[ch] ELSE ch

\* a comparison that keeps the letter case of the message
toLowerCase_AsIs(str) == str

toLowerCase(str) == [i \in 1..Len(str) |-> ToLowerChar(str[i])]

\* String.prototype.includes
includes(str, sub) ==
    \E i \in 0..(Len(str) - Len(sub)) : SubSeq(str, i + 1, i + Len(sub)) = sub

NetworkSubstrings ==
    { <<"n","e","t","w","o","r","k">>,
      <<"f","a","i","l","e","d"," ","t","o"," ","f","e","t","c","h">>,
      <<"f","e","t","c","h"," ","f","a","i","l","e","d">>,
      <<"n","e","t","w","o","r","k","e","r","r","o","r">>,
      <<"n","e","t",":",":">>,
      <<"t","i","m","e","o","u","t">>,
      <<"a","b","o","r","t","e","d">>,
      <<"c","o","n","n","e","c","t","i","o","n">> }

\* a classifier that looks at the message only
isNetworkError_MessageOnly(error, onLine) ==
    IF ~error.isError THEN FALSE
    ELSE \E sub \in NetworkSubstrings : includes(toLowerCase(error.message), sub)

isNetworkError(error, onLine) ==
    IF ~error.isError THEN FALSE
    ELSE (\E sub \in NetworkSubstrings : includes(toLowerCase(error.message), sub))
         \/ ~onLine

\* the messages of the errors the API layer throws
FailedToFetch == <<"F","a","i","l","e","d"," ","t","o"," ","f","e","t","c","h">>

ServerErrorMessage == <<"S","e","r","v","e","r"," ","e","r","r","o","r">>

ErrorMessages == {FailedToFetch, ServerErrorMessage}

(***************************************************************************)
(* useUpdateUserStatus: the mutation and its callbacks                     *)
(***************************************************************************)
\* number of status mutations the operator starts
MaxMutations == 1

NoContext == [k \in QueryKeys |-> [data |-> NoData, cached |-> FALSE]]

\* mutationId counts the mutations the MutationCache has built
IdleMutation ==
    [phase |-> "idle", status |-> "active", userId |-> AllUsers[1], mutationId |-> 0,
     previousQueries |-> NoContext]

\* onMutate: cancel the outgoing fetches, snapshot, optimistic write
onMutateCache(c, userId, status) == setQueriesData(cancelQueries(c), userId, status)

onMutateContext(c) == getQueriesData(cancelQueries(c))

RECURSIVE RestoreKeys(_, _, _)
RestoreKeys(c, previousQueries, keys) ==
    IF keys = {} THEN c
    ELSE LET k == CHOOSE x \in keys : TRUE
         IN RestoreKeys(
              IF previousQueries[k].cached
              THEN setQueryData(c, k, previousQueries[k].data)
              ELSE c,
              previousQueries, keys \ {k})

\* onError: rollback to the snapshot
onError(c, previousQueries) == RestoreKeys(c, previousQueries, QueryKeys)

\* variant: no invalidation when the mutation settles
onSettled_Nothing(c, active) == c

\* onSettled: always refetch after error or success
onSettled(c, active) == invalidateQueries(c, active)

\* useInvalidateUsersCache().invalidateAll
invalidateAll(c, active) == invalidateQueries(c, active)

\* variant: the invalidation before the rollback
onFailure_InvalidateFirst(c, previousQueries, active) ==
    onError(onSettled(c, active), previousQueries)

\* what the mutation does to the cache when the network call has failed
onFailure(c, previousQueries, active) == onSettled(onError(c, previousQueries), active)

\* what the mutation and handleToggleStatus.onSuccess do to the cache on success
onSuccess(c, active) == invalidateAll(onSettled(c, active), active)

(***************************************************************************)
(* The Users page over the cache: what it shows and its handlers           *)
(***************************************************************************)
\* a useUsers result that keeps showing another cached page while the
\* subscribed key has none (placeholder data)
data_KeepPrevious ==
    IF cache[viewKey].data.defined \/ ~\E k \in QueryKeys : cache[k].data.defined
    THEN cache[viewKey].data
    ELSE cache[CHOOSE k \in QueryKeys : cache[k].data.defined].data

\* the result of the useUsers call
data == cache[viewKey].data

error == cache[viewKey].error

isUpdating == mutation.phase = "pending"

isOffline == ~isOnline

\* the page renders the grid (and not the offline page or the error alert)
ShowsGrid == ~error.isError

\* the rows of the grid
usersWithActions == data.users

\* the rows on screen: those handed to DynamicGrid, none when the offline page
\* or the error alert is rendered in its place
GridRows == IF ShowsGrid THEN usersWithActions ELSE <<>>

\* a page that looks at the monitor only
networkError_MonitorOnly == isOffline

\* const networkError = isNetworkError(error) || isOffline
networkError == isNetworkError(error, navigatorOnLine) \/ isOffline

\* what UsersPage returns: the offline page or the error alert when the fetch
\* has an error, the page with the grid otherwise
Screen ==
    IF ~error.isError THEN "grid"
    ELSE IF networkError THEN "offline" ELSE "alert"

\* the message of the error alert
AlertMessage == <<"Something went wrong while loading users: ">> \o error.message

ToggleTarget(user) == IF user.status = "active" THEN "inactive" ELSE "active"

\* a toggle that starts the mutation whatever the monitor reports
handleToggleStatus_NoOfflineGuard(i) ==
    /\ ShowsGrid
    /\ ~isUpdating
    /\ i \in 1..Len(usersWithActions)
    /\ mutation.mutationId < MaxMutations
    /\ LET user == usersWithActions[i]
           newStatus == ToggleTarget(user)
       IN /\ cache' = onMutateCache(cache, user.userId, newStatus)
          /\ mutation' = [phase |-> "pending",
                          status |-> newStatus,
                          userId |-> user.userId,
                          mutationId |-> mutation.mutationId + 1,
                          previousQueries |-> onMutateContext(cache)]
    /\ UNCHANGED <<viewKey, serverStatus, isOnline, navigatorOnLine, snackbar>>
    /\ UNCHANGED viewVars

\* handleToggleStatus(userId, newStatus), called from the toggle button of a row
handleToggleStatus(i) ==
    /\ ShowsGrid
    /\ ~isUpdating
    /\ i \in 1..Len(usersWithActions)
    /\ LET user == usersWithActions[i]
           newStatus == ToggleTarget(user)
       IN IF isOffline
          THEN /\ snackbar' = "warning"
               /\ UNCHANGED <<cache, mutation>>
          ELSE /\ mutation.mutationId < MaxMutations
               /\ cache' = onMutateCache(cache, user.userId, newStatus)
               /\ mutation' = [phase |-> "pending",
                               status |-> newStatus,
                               userId |-> user.userId,
                               mutationId |-> mutation.mutationId + 1,
                               previousQueries |-> onMutateContext(cache)]
               /\ UNCHANGED snackbar
    /\ UNCHANGED <<viewKey, serverStatus, isOnline, navigatorOnLine>>
    /\ UNCHANGED viewVars

\* PATCH /api/users/:id answers 2xx
MutationSuccess ==
    /\ mutation.phase = "pending"
    /\ serverStatus' = [serverStatus EXCEPT ![mutation.userId] = mutation.status]
    /\ cache' = onSuccess(cache, viewKey)
    /\ mutation' = [IdleMutation EXCEPT !.mutationId = mutation.mutationId]
    /\ snackbar' = "success"
    /\ UNCHANGED <<viewKey, isOnline, navigatorOnLine>>
    /\ UNCHANGED viewVars

\* PATCH /api/users/:id fails: non-2xx, or a network failure, in which the
\* backend may or may not have applied the change
MutationError(msg, applied) ==
    /\ mutation.phase = "pending"
    /\ serverStatus' = IF applied
                       THEN [serverStatus EXCEPT ![mutation.userId] = mutation.status]
                       ELSE serverStatus
    /\ cache' = onFailure(cache, mutation.previousQueries, viewKey)
    /\ mutation' = [IdleMutation EXCEPT !.mutationId = mutation.mutationId]
    /\ snackbar' = IF isNetworkError(Error(msg), navigatorOnLine) THEN "warning" ELSE "error"
    /\ UNCHANGED <<viewKey, isOnline, navigatorOnLine>>
    /\ UNCHANGED viewVars

\* GET /api/users answers for the fetch in flight of key k
FetchSuccess(k) ==
    /\ cache[k].fetching
    /\ cache' = [cache EXCEPT ![k] =
                    [status |-> "success", data |-> fetchUsers(k, serverStatus),
                     error |-> NoError, isInvalidated |-> FALSE, exists |-> TRUE,
                     fetching |-> FALSE, revert |-> NoRevert,
                     superseded |-> cache[k].superseded]]
    /\ UNCHANGED <<viewKey, serverStatus, mutation, isOnline, navigatorOnLine, snackbar>>
    /\ UNCHANGED viewVars

\* the fetch in flight of key k fails
FetchError(k, msg) ==
    /\ cache[k].fetching
    /\ cache' = [cache EXCEPT ![k] =
                    [cache[k] EXCEPT !.status = "error", !.error = Error(msg),
                                     !.fetching = FALSE, !.revert = NoRevert]]
    /\ UNCHANGED <<viewKey, serverStatus, mutation, isOnline, navigatorOnLine, snackbar>>
    /\ UNCHANGED viewVars

\* GET /api/users answers a request whose fetch was cancelled: nobody listens
SupersededResponse(k) ==
    /\ cache[k].superseded
    /\ cache' = [cache EXCEPT ![k] = [cache[k] EXCEPT !.superseded = FALSE]]
    /\ UNCHANGED <<viewKey, serverStatus, mutation, isOnline, navigatorOnLine, snackbar>>
    /\ UNCHANGED viewVars

\* the page re-renders useUsers with another params tuple
SetParams(k, elapsed) ==
    /\ k # viewKey
    /\ viewKey' = k
    /\ cache' = useUsers(cache, k, elapsed)
    /\ UNCHANGED <<serverStatus, mutation, isOnline, navigatorOnLine, snackbar>>
    /\ UNCHANGED viewVars

\* a retry that only dismisses the error
handleRetry_DismissOnly ==
    /\ ~ShowsGrid
    /\ cache' = [cache EXCEPT ![viewKey] = [cache[viewKey] EXCEPT !.error = NoError]]
    /\ UNCHANGED <<viewKey, serverStatus, mutation, isOnline, navigatorOnLine, snackbar>>
    /\ UNCHANGED viewVars

\* handleRetry, from the offline page or the error alert
handleRetry ==
    /\ ~ShowsGrid
    /\ cache' = [cache EXCEPT ![viewKey] = StartFetch(cache[viewKey], TRUE)]
    /\ UNCHANGED <<viewKey, serverStatus, mutation, isOnline, navigatorOnLine, snackbar>>
    /\ UNCHANGED viewVars

\* the browser's online and offline events
handleOnline ==
    /\ ~navigatorOnLine
    /\ navigatorOnLine' = TRUE
    /\ isOnline' = TRUE
    /\ UNCHANGED <<cache, viewKey, serverStatus, mutation, snackbar>>
    /\ UNCHANGED viewVars

handleOffline ==
    /\ navigatorOnLine
    /\ navigatorOnLine' = FALSE
    /\ isOnline' = FALSE
    /\ UNCHANGED <<cache, viewKey, serverStatus, mutation, snackbar>>
    /\ UNCHANGED viewVars

(***************************************************************************)
(* View-state controller: JavaScript numbers and their conversions         *)
(***************************************************************************)
\* a JavaScript number: an integer or NaN
Num(n) == [n |-> n, nan |-> FALSE]

NaN == [n |-> 0, nan |-> TRUE]

Plus(a, k) == IF a.nan THEN NaN ELSE Num(a.n + k)

DigitChars == <<"0", "1", "2", "3", "4", "5", "6", "7", "8", "9">>

IsDigit(ch) == \E d \in 1..10 : DigitChars[d] = ch

DigitVal(ch) == (CHOOSE d \in 1..10 : DigitChars[d] = ch) - 1

RECURSIVE ParseDigits(_, _, _)
ParseDigits(str, i, acc) ==
    IF i > Len(str) \/ ~IsDigit(str[i]) THEN acc
    ELSE ParseDigits(str, i + 1, acc * 10 + DigitVal(str[i]))

\* parseInt(str): an optional sign and the longest prefix of decimal digits
parseInt(str) ==
    LET neg == Len(str) > 0 /\ str[1] = "-"
        start == IF neg THEN 2 ELSE 1
    IN IF start > Len(str) \/ ~IsDigit(str[start]) THEN NaN
       ELSE Num((IF neg THEN -1 ELSE 1) * ParseDigits(str, start, 0))

RECURSIVE DigitsOf(_)
DigitsOf(n) ==
    IF n < 10 THEN <<DigitChars[n + 1]>>
    ELSE DigitsOf(n \div 10) \o <<DigitChars[(n % 10) + 1]>>

\* String(x) of a number
String(x) ==
    IF x.nan THEN <<"N", "a", "N">>
    ELSE IF x.n < 0 THEN <<"-">> \o DigitsOf(-x.n)
    ELSE DigitsOf(x.n)

(***************************************************************************)
(* View-state controller: the URL and the state initialised from it        *)
(***************************************************************************)
\* a parameter of the query string: absent, or present with a value.  The
\* values of page and pageSize are character sequences, those of status and
\* query are strings
Absent(empty) == [present |-> FALSE, value |-> empty]

Param(v) == [present |-> TRUE, value |-> v]

\* searchParams.get(name) || fallback
GetOr(param, empty, fallback) ==
    IF param.present /\ param.value # empty THEN param.value ELSE fallback

initSearchQuery(u) == GetOr(u.query, "", "")

initStatusFilter(u) == GetOr(u.status, "", "all")

initPagination(u) ==
    [pageSize |-> IF u.pageSize.present /\ u.pageSize.value # <<>>
                  THEN parseInt(u.pageSize.value) ELSE Num(DefaultPageSize),
     pageIndex |-> IF u.page.present /\ u.page.value # <<>>
                   THEN Plus(parseInt(u.page.value), -1) ELSE Num(0)]

\* the component state of one render
View(sq, sf, pg, dsq, tm, iim, psq, psf, u) ==
    [url |-> u, searchQuery |-> sq, statusFilter |-> sf,
     pagination |-> pg, debouncedSearchQuery |-> dsq, timer |-> tm,
     isInitialMount |-> iim, prevSearchQuery |-> psq, prevStatusFilter |-> psf,
     requested |-> <<>>]

CurrentView ==
    View(searchQuery, statusFilter, pagination, debouncedSearchQuery, timer,
         isInitialMount, prevSearchQuery, prevStatusFilter, url)

NoTimer == [value |-> "", pending |-> FALSE]

\* the first render: the useState initialisers, useDebounce's initial state
\* and the initial values of the refs
FirstRender(u) ==
    View(initSearchQuery(u), initStatusFilter(u), initPagination(u),
         initSearchQuery(u), NoTimer, TRUE, initSearchQuery(u), initStatusFilter(u), u)

\* variant: the sync effect writing the zero-based page index
SyncUrl_ZeroBased(v) ==
    [page |-> Param(String(v.pagination.pageIndex)),
     pageSize |-> IF v.pagination.pageSize # Num(DefaultPageSize)
                  THEN Param(String(v.pagination.pageSize)) ELSE Absent(<<>>),
     query |-> IF v.searchQuery # "" THEN Param(v.searchQuery) ELSE Absent(""),
     status |-> IF v.statusFilter # "all" THEN Param(v.statusFilter) ELSE Absent("")]

\* the URL written by the sync effect
SyncUrl(v) ==
    [page |-> Param(String(Plus(v.pagination.pageIndex, 1))),
     pageSize |-> IF v.pagination.pageSize # Num(DefaultPageSize)
                  THEN Param(String(v.pagination.pageSize)) ELSE Absent(<<>>),
     query |-> IF v.searchQuery # "" THEN Param(v.searchQuery) ELSE Absent(""),
     status |-> IF v.statusFilter # "all" THEN Param(v.statusFilter) ELSE Absent("")]

\* the params passed to useUsers
FetchParams(v) ==
    [page |-> Plus(v.pagination.pageIndex, 1), pageSize |-> v.pagination.pageSize,
     query |-> v.debouncedSearchQuery, status |-> v.statusFilter]

(***************************************************************************)
(* View-state controller: the effects of UsersPage                         *)
(***************************************************************************)
\* useDebounce(searchQuery, 300): the effect restarts the timer when the value
\* changes
DebounceEffect(prev, v, mount) ==
    IF mount \/ v.searchQuery # prev.searchQuery
    THEN [v EXCEPT !.timer = [value |-> v.searchQuery, pending |-> TRUE]]
    ELSE v

\* "Sync state changes to URL"
UrlSyncEffect(prev, v, mount) ==
    IF \/ mount
       \/ v.pagination # prev.pagination
       \/ v.statusFilter # prev.statusFilter
       \/ v.searchQuery # prev.searchQuery
    THEN [v EXCEPT !.url = SyncUrl(v)]
    ELSE v

\* variant: the reset effect without the initial-mount guard and the refs
ResetBody_Unconditional(v) ==
    [v EXCEPT !.isInitialMount = FALSE,
              !.pagination = [v.pagination EXCEPT !.pageIndex = Num(0)],
              !.prevSearchQuery = v.debouncedSearchQuery,
              !.prevStatusFilter = v.statusFilter]

\* variant: the reset effect comparing the status filter only
ResetBody_StatusOnly(v) ==
    IF v.isInitialMount
    THEN [v EXCEPT !.isInitialMount = FALSE,
                   !.prevSearchQuery = v.debouncedSearchQuery,
                   !.prevStatusFilter = v.statusFilter]
    ELSE IF v.prevStatusFilter # v.statusFilter
         THEN [v EXCEPT !.pagination = [v.pagination EXCEPT !.pageIndex = Num(0)],
                        !.prevSearchQuery = v.debouncedSearchQuery,
                        !.prevStatusFilter = v.statusFilter]
         ELSE [v EXCEPT !.prevSearchQuery = v.debouncedSearchQuery]

\* the body of "Reset to first page only when search query or status filter
\* CHANGES (not on mount)"
ResetBody(v) ==
    IF v.isInitialMount
    THEN [v EXCEPT !.isInitialMount = FALSE,
                   !.prevSearchQuery = v.debouncedSearchQuery,
                   !.prevStatusFilter = v.statusFilter]
    ELSE IF \/ v.prevSearchQuery # v.debouncedSearchQuery
            \/ v.prevStatusFilter # v.statusFilter
         THEN [v EXCEPT !.pagination = [v.pagination EXCEPT !.pageIndex = Num(0)],
                        !.prevSearchQuery = v.debouncedSearchQuery,
                        !.prevStatusFilter = v.statusFilter]
         ELSE v

\* variant: the reset effect also resetting when the page size changed
ResetEffect_OnPageSize(prev, v, mount) ==
    IF ~mount /\ v.pagination.pageSize # prev.pagination.pageSize
    THEN [v EXCEPT !.pagination = [v.pagination EXCEPT !.pageIndex = Num(0)]]
    ELSE IF \/ mount
            \/ v.debouncedSearchQuery # prev.debouncedSearchQuery
            \/ v.statusFilter # prev.statusFilter
         THEN ResetBody(v)
         ELSE v

\* the reset effect runs on mount and when one of its dependencies changed
ResetEffect(prev, v, mount) ==
    IF \/ mount
       \/ v.debouncedSearchQuery # prev.debouncedSearchQuery
       \/ v.statusFilter # prev.statusFilter
    THEN ResetBody(v)
    ELSE v

\* the effect of useQuery inside useUsers: the observer takes the params of
\* this render, and subscribes to their query when they differ from the
\* previous render's
useUsersEffect(prev, v, mount) ==
    IF mount \/ FetchParams(v) # FetchParams(prev)
    THEN [v EXCEPT !.requested = Append(@, FetchParams(v))]
    ELSE v

\* the effects of the render of v that follows the render of prev, and of the
\* renders their state updates cause; every effect reads the values of its
\* render, and the state update of the reset effect shows in the next one
RECURSIVE RunEffects(_, _, _)
RunEffects(prev, v, mount) ==
    LET after == ResetEffect(prev,
                             useUsersEffect(prev,
                                UrlSyncEffect(prev, DebounceEffect(prev, v, mount), mount),
                                mount),
                             mount)
    IN IF after.pagination # v.pagination THEN RunEffects(v, after, FALSE) ELSE after

Commit(v) ==
    /\ searchQuery' = v.searchQuery
    /\ statusFilter' = v.statusFilter
    /\ pagination' = v.pagination
    /\ debouncedSearchQuery' = v.debouncedSearchQuery
    /\ timer' = v.timer
    /\ isInitialMount' = v.isInitialMount
    /\ prevSearchQuery' = v.prevSearchQuery
    /\ prevStatusFilter' = v.prevStatusFilter
    /\ url' = v.url
    /\ requested' = v.requested
    /\ UNCHANGED wireTap
    /\ UNCHANGED hookVars
    /\ UNCHANGED storeVars
    /\ UNCHANGED netVars
    /\ UNCHANGED componentVars

(***************************************************************************)
(* View-state controller: mount, handlers and the debounce timer           *)
(***************************************************************************)
\* search texts the operator types
SearchTexts == {"", "b", "bo"}

\* page sizes the grid offers
PageSizes == {DefaultPageSize, 20}

\* largest page index the grid navigates to
MaxPageIndex == 2

\* the effects of the first render
MountEffects ==
    /\ phase = "rendered"
    /\ phase' = "mounted"
    /\ Commit(RunEffects(CurrentView, CurrentView, TRUE))
    /\ UNCHANGED cacheVars

handleSearchChange(text) ==
    /\ phase = "mounted"
    /\ text # searchQuery
    /\ Commit(RunEffects(CurrentView, [CurrentView EXCEPT !.searchQuery = text], FALSE))
    /\ UNCHANGED phase
    /\ UNCHANGED cacheVars

\* variant: the handler resetting the pagination to its defaults
handleStatusFilterChange_DefaultSize(value) ==
    /\ phase = "mounted"
    /\ value # statusFilter
    /\ Commit(RunEffects(CurrentView,
                         [CurrentView EXCEPT
                            !.statusFilter = value,
                            !.pagination = [pageSize |-> Num(DefaultPageSize),
                                            pageIndex |-> Num(0)]],
                         FALSE))
    /\ UNCHANGED phase
    /\ UNCHANGED cacheVars

handleStatusFilterChange(value) ==
    /\ phase = "mounted"
    /\ value # statusFilter
    /\ Commit(RunEffects(CurrentView,
                         [CurrentView EXCEPT
                            !.statusFilter = value,
                            !.pagination = [pagination EXCEPT !.pageIndex = Num(0)]],
                         FALSE))
    /\ UNCHANGED phase
    /\ UNCHANGED cacheVars

handlePaginationChange(newPagination) ==
    /\ phase = "mounted"
    /\ newPagination # pagination
    /\ Commit(RunEffects(CurrentView, [CurrentView EXCEPT !.pagination = newPagination],
                         FALSE))
    /\ UNCHANGED phase
    /\ UNCHANGED cacheVars

\* the debounce timer fires: setDebouncedValue(value)
DebounceTimeout ==
    /\ phase = "mounted"
    /\ timer.pending
    /\ Commit(RunEffects(CurrentView,
                         [CurrentView EXCEPT !.debouncedSearchQuery = timer.value,
                                             !.timer = NoTimer],
                         FALSE))
    /\ UNCHANGED phase
    /\ UNCHANGED cacheVars

(***************************************************************************)
(* useDebounce rendered on its own under fake timers                       *)
(***************************************************************************)
\* values the test passes to the hook
DebounceValues == {"a", "ab", "abc"}

\* largest delay passed to the hook, in ticks of the fake clock
MaxDelay == 2

\* the fake clock is advanced up to this time
MaxTime == 4

NoHookTimer == [value |-> "", pending |-> FALSE, due |-> 0]

NoHook ==
    [timer |-> NoHookTimer, value |-> "", stage |-> "none", delay |-> 0,
     debouncedValue |-> ""]

HookNotRendered ==
    /\ debounceHook = NoHook
    /\ fakeClock = [now |-> 0, lastUpdateAt |-> 0, updates |-> 0, before |-> "",
                    changes |-> 0, changedAt |-> 0]

\* variant: the effect keeping the timer of the first update of a sequence
\* alive (a throttle: the timer is not restarted)
setTimeout_Leading(value, delay, now) ==
    IF debounceHook.timer.pending /\ fakeClock.updates > 0
    THEN [debounceHook.timer EXCEPT !.value = value]
    ELSE [value |-> value, pending |-> TRUE, due |-> now + delay]

\* variant: a timer that never fires before one tick has passed
setTimeout_MinimumTick(value, delay, now) ==
    [value |-> value, pending |-> TRUE, due |-> now + (IF delay = 0 THEN 1 ELSE delay)]

\* the effect of useDebounce: setTimeout(() => setDebouncedValue(value), delay)
setTimeout(value, delay, now) == [value |-> value, pending |-> TRUE, due |-> now + delay]

\* variant: a cleanup that leaves the timer running
clearTimeout_Leak(tm) == tm

\* the cleanup of the effect: clearTimeout(timer)
clearTimeout(tm) == NoHookTimer

\* renderHook(() => useDebounce(value, delay)): useState(value), then the effect
renderHook(value, delay) ==
    /\ debounceHook.stage = "none"
    /\ debounceHook' = [timer |-> setTimeout(value, delay, fakeClock.now),
                        value |-> value, stage |-> "mounted", delay |-> delay,
                        debouncedValue |-> value]
    /\ fakeClock' = [fakeClock EXCEPT !.lastUpdateAt = fakeClock.now, !.before = value]
    /\ UNCHANGED cacheVars
    /\ UNCHANGED pageVars

\* rerender({ value, delay }) with another value and the same delay: the
\* effect's dependencies changed, so its cleanup runs and it runs again.  The
\* test observes a sequence of updates: it starts when no timer of an earlier
\* update is pending
rerender(value) ==
    /\ debounceHook.stage = "mounted"
    /\ value # debounceHook.value
    /\ debounceHook' = [debounceHook EXCEPT
                          !.value = value,
                          !.timer = setTimeout(value, debounceHook.delay, fakeClock.now)]
    /\ fakeClock' = IF debounceHook.timer.pending /\ fakeClock.updates > 0
                    THEN [fakeClock EXCEPT !.lastUpdateAt = fakeClock.now,
                                           !.updates = Min(@ + 1, 2)]
                    ELSE [fakeClock EXCEPT !.lastUpdateAt = fakeClock.now,
                                           !.updates = 1,
                                           !.before = debounceHook.debouncedValue,
                                           !.changes = 0]
    /\ UNCHANGED cacheVars
    /\ UNCHANGED pageVars

\* variant: advancing the clock fires a pending timer whatever its due time
advanceTimersByTime_FiresEarly(ms) ==
    /\ debounceHook.stage # "none"
    /\ fakeClock.now + ms <= MaxTime
    /\ LET fires == debounceHook.timer.pending
           exposed == IF fires /\ debounceHook.stage = "mounted"
                      THEN debounceHook.timer.value ELSE debounceHook.debouncedValue
           changed == exposed # debounceHook.debouncedValue
       IN /\ debounceHook' = [debounceHook EXCEPT
                                !.debouncedValue = exposed,
                                !.timer = IF fires THEN NoHookTimer ELSE @]
          /\ fakeClock' = [fakeClock EXCEPT
                             !.now = fakeClock.now + ms,
                             !.changes = IF changed THEN Min(@ + 1, 2) ELSE @,
                             !.changedAt = IF changed THEN fakeClock.now + ms ELSE @]
    /\ UNCHANGED cacheVars
    /\ UNCHANGED pageVars

\* vi.advanceTimersByTime(ms): the clock advances and a timer due by then
\* fires; React ignores the state update of an unmounted component
advanceTimersByTime(ms) ==
    /\ debounceHook.stage # "none"
    /\ fakeClock.now + ms <= MaxTime
    /\ LET fires == debounceHook.timer.pending /\ debounceHook.timer.due <= fakeClock.now + ms
           exposed == IF fires /\ debounceHook.stage = "mounted"
                      THEN debounceHook.timer.value ELSE debounceHook.debouncedValue
           changed == exposed # debounceHook.debouncedValue
       IN /\ debounceHook' = [debounceHook EXCEPT
                                !.debouncedValue = exposed,
                                !.timer = IF fires THEN NoHookTimer ELSE @]
          /\ fakeClock' = [fakeClock EXCEPT
                             !.now = fakeClock.now + ms,
                             !.changes = IF changed THEN Min(@ + 1, 2) ELSE @,
                             !.changedAt = IF changed THEN debounceHook.timer.due ELSE @]
    /\ UNCHANGED cacheVars
    /\ UNCHANGED pageVars

\* unmount(): the cleanup of the effect runs
unmount ==
    /\ debounceHook.stage = "mounted"
    /\ debounceHook' = [debounceHook EXCEPT !.stage = "unmounted",
                                            !.timer = clearTimeout(@)]
    /\ UNCHANGED fakeClock
    /\ UNCHANGED cacheVars
    /\ UNCHANGED pageVars

(***************************************************************************)
(* Network status: the monitor from its first render, and the classifier   *)
(* applied to errors                                                       *)
(***************************************************************************)
\* messages of errors handed to isNetworkError
NetworkDown == <<"N","e","t","w","o","r","k"," ","d","o","w","n">>

NetErrCode == <<"n","e","t",":",":","E","R","R">>

FetchFailedMessage == <<"f","e","t","c","h"," ","f","a","i","l","e","d">>

TimeoutMessage == <<"T","i","m","e","o","u","t">>

AbortedMessage == <<"A","b","o","r","t","e","d">>

ConnectionLost == <<"C","o","n","n","e","c","t","i","o","n"," ","l","o","s","t">>

NotFoundMessage == <<"N","o","t"," ","f","o","u","n","d">>

ClassifierMessages ==
    ErrorMessages \cup {NetworkDown, NetErrCode, FetchFailedMessage, TimeoutMessage,
                        AbortedMessage, ConnectionLost, NotFoundMessage, <<>>}

\* a thrown string: String(error) is the string itself, and the empty string is
\* falsy like null (isError stands for the truthiness of the value)
ThrownString(str) == [isError |-> str # <<>>, message |-> str]

\* the values handed to isNetworkError(error: unknown): null, Error objects and
\* thrown strings
ErrorValues ==
    {NoError} \cup {Error(msg) : msg \in ClassifierMessages}
              \cup {ThrownString(msg) : msg \in ClassifierMessages}

\* number of connectivity events observed after the monitor started
MaxEvents == 3

\* the hook on its first render: its state is initialised, its listeners are
\* not yet added.  lastEvent: the latest connectivity event since that render
MonitorRendered == [stage |-> "rendered", lastEvent |-> "none", events |-> 0]

NotClassified == [error |-> NoError, onLine |-> TRUE, called |-> FALSE, result |-> FALSE]

\* in the specifications of the page the monitor is subscribed from the start
MonitorNotObserved ==
    /\ monitor = [stage |-> "subscribed", lastEvent |-> "none", events |-> 0]
    /\ classified = NotClassified

\* the first render of useNetworkStatus: useState(() => navigator.onLine)
useNetworkStatus ==
    /\ monitor.stage = "none"
    /\ monitor' = MonitorRendered
    /\ isOnline' = navigatorOnLine
    /\ UNCHANGED <<cache, viewKey, serverStatus, mutation, navigatorOnLine, snackbar>>
    /\ UNCHANGED classified
    /\ UNCHANGED <<controllerVars, hookVars, storeVars, componentVars>>

\* the effect of useNetworkStatus adds the two listeners
useNetworkStatusEffect ==
    /\ monitor.stage = "rendered"
    /\ monitor' = [monitor EXCEPT !.stage = "subscribed"]
    /\ UNCHANGED cacheVars
    /\ UNCHANGED classified
    /\ UNCHANGED <<controllerVars, hookVars, storeVars, componentVars>>

\* the cleanup of the effect removes the listeners
useNetworkStatusCleanup ==
    /\ monitor.stage = "subscribed"
    /\ monitor' = [monitor EXCEPT !.stage = "none"]
    /\ UNCHANGED cacheVars
    /\ UNCHANGED classified
    /\ UNCHANGED <<controllerVars, hookVars, storeVars, componentVars>>

\* the browser changes navigator.onLine and fires the online or the offline
\* event: handleOnline / handleOffline run if the listeners are added
ConnectivityEvent(online) ==
    /\ navigatorOnLine # online
    /\ monitor.events < MaxEvents
    /\ navigatorOnLine' = online
    /\ isOnline' = IF monitor.stage = "subscribed" THEN online ELSE isOnline
    /\ monitor' = [monitor EXCEPT
                      !.lastEvent = IF monitor.stage = "none" THEN @
                                    ELSE IF online THEN "online" ELSE "offline",
                      !.events = IF monitor.stage = "none" THEN @ ELSE @ + 1]
    /\ UNCHANGED <<cache, viewKey, serverStatus, mutation, snackbar>>
    /\ UNCHANGED classified
    /\ UNCHANGED <<controllerVars, hookVars, storeVars, componentVars>>

\* a call isNetworkError(error)
Classify(err) ==
    /\ classified' = [error |-> err, onLine |-> navigatorOnLine, called |-> TRUE,
                      result |-> isNetworkError(err, navigatorOnLine)]
    /\ UNCHANGED cacheVars
    /\ UNCHANGED monitor
    /\ UNCHANGED <<controllerVars, hookVars, storeVars, componentVars>>

(***************************************************************************)
(* Table preferences: useLocalStorage and useTablePreferences              *)
(***************************************************************************)
\* the view identifiers (tableId) of the grids
TableIds == {"users-table", "default-table"}

\* the columns whose visibility the grid lets the user change, in column order
HideableColumns == <<"email", "status">>

\* the columns the grid sorts by
SortableColumns == {"name"}

Densities == {"comfortable", "compact", "spacious"}

\* the longest sorting state
MaxSorting == 1

\* Record<string, boolean> over the hideable columns
VisibilityStates ==
    UNION {[S -> BOOLEAN] : S \in SUBSET {HideableColumns[i] : i \in 1..Len(HideableColumns)}}

SortingStates ==
    UNION {[1..n -> [id : SortableColumns, desc : BOOLEAN]] : n \in 0..MaxSorting}

\* a TablePreferences value
TablePreferences ==
    [isNull : {FALSE}, columnVisibility : VisibilityStates, sorting : SortingStates,
     density : Densities]

defaultTablePreferences ==
    [isNull |-> FALSE, columnVisibility |-> [c \in {} |-> TRUE], sorting |-> <<>>,
     density |-> "comfortable"]

\* the JavaScript value null
Null ==
    [isNull |-> TRUE, columnVisibility |-> [c \in {} |-> TRUE], sorting |-> <<>>,
     density |-> ""]

\* the values JSON.parse can return for an entry of the preferences
JsonValues == TablePreferences \cup {Null}

BoolText(b) == IF b THEN "true" ELSE "false"

\* the members of a visibility object, from column i on
RECURSIVE VisibilityMembers(_, _)
VisibilityMembers(cv, i) ==
    IF i > Len(HideableColumns) THEN <<>>
    ELSE (IF HideableColumns[i] \in DOMAIN cv
          THEN <<HideableColumns[i], ":", BoolText(cv[HideableColumns[i]])>>
          ELSE <<>>)
         \o VisibilityMembers(cv, i + 1)

\* the elements of a sorting array, from element i on
RECURSIVE SortingElements(_, _)
SortingElements(sorting, i) ==
    IF i > Len(sorting) THEN <<>>
    ELSE <<"{", "id", ":", sorting[i].id, "desc", ":", BoolText(sorting[i].desc), "}">>
         \o SortingElements(sorting, i + 1)

\* a serialisation that leaves out the direction of the sorting
JSONstringify_NoDirection(value) ==
    IF value.isNull THEN <<"null">>
    ELSE <<"{", "columnVisibility", ":", "{">> \o VisibilityMembers(value.columnVisibility, 1)
         \o <<"}", "sorting", ":", "[">>
         \o [i \in 1..Len(value.sorting) |-> value.sorting[i].id]
         \o <<"]", "density", ":", value.density, "}">>

\* JSON.stringify(value): the text, as its tokens
JSONstringify(value) ==
    IF value.isNull THEN <<"null">>
    ELSE <<"{", "columnVisibility", ":", "{">> \o VisibilityMembers(value.columnVisibility, 1)
         \o <<"}", "sorting", ":", "[">> \o SortingElements(value.sorting, 1)
         \o <<"]", "density", ":", value.density, "}">>

\* the texts JSON.parse accepts, each with the value it denotes
ParsedTexts ==
    [text \in {JSONstringify(value) : value \in JsonValues} |->
        CHOOSE value \in JsonValues : JSONstringify(value) = text]

\* JSON.parse(text) returns a value (it throws a SyntaxError otherwise)
CanParse(text) == text \in DOMAIN ParsedTexts

\* JSON.parse(text): the value the text denotes
JSONparse(text) == ParsedTexts[text]

\* a text cut short, which JSON.parse rejects
TruncatedText == <<"{", "columnVisibility", ":">>

\* localStorage entries: none (getItem returns null), or a text
NoItem == [present |-> FALSE, text |-> <<>>]

Item(text) == [present |-> TRUE, text |-> text]

\* one key for the preferences of every view
StorageKey_Shared(tableId) == <<"table-preferences-", "shared">>

\* `table-preferences-${tableId}`

StorageKey(tableId) == <<"table-preferences-", tableId>>

StorageKeys == {StorageKey(tableId) : tableId \in TableIds}

\* window.localStorage.setItem(key, text): throws when the quota is exceeded
\* or storage is disabled, and the effect of useLocalStorage catches it
setItem(ls, mode, key, text) ==
    IF mode = "working" THEN [ls EXCEPT ![key] = Item(text)] ELSE ls

\* window.localStorage.removeItem(key): throws when storage is disabled
removeItem(ls, mode, key) ==
    IF mode = "disabled" THEN ls ELSE [ls EXCEPT ![key] = NoItem]

\* an initialiser that trusts the entry to parse
useLocalStorageInit_Unguarded(ls, mode, key, initialValue) ==
    IF mode # "disabled" /\ ls[key].present /\ ls[key].text # <<>>
    THEN [value |-> IF CanParse(ls[key].text) THEN JSONparse(ls[key].text) ELSE Null,
          isInitialValue |-> FALSE]
    ELSE [value |-> initialValue, isInitialValue |-> TRUE]

\* the initial state of useLocalStorage(key, initialValue): the parsed entry, or
\* initialValue when there is none, it is empty, or reading or parsing throws.
\* isInitialValue: the state is the very object initialValue
useLocalStorageInit(ls, mode, key, initialValue) ==
    IF mode # "disabled" /\ ls[key].present /\ ls[key].text # <<>>
       /\ CanParse(ls[key].text)
    THEN [value |-> JSONparse(ls[key].text), isInitialValue |-> FALSE]
    ELSE [value |-> initialValue, isInitialValue |-> TRUE]

\* the effect of useLocalStorage, run after a render with a new state
PersistEffect(ls, mode, key, storedValue) ==
    setItem(ls, mode, key, JSONstringify(storedValue))

\* no grid is mounted.  lastCall records the latest call made to the hook
NoTable ==
    [stage |-> "none", tableId |-> "", isInitialValue |-> TRUE,
     preferences |-> defaultTablePreferences, lastCall |-> "none"]

\* a grid mounts: useTablePreferences(tableId) initialises its state from the
\* storage; the grid's render reads preferences.columnVisibility, which throws
\* on null; otherwise the effect writes the state to the storage
useTablePreferences(tableId) ==
    /\ tablePrefs.stage = "none"
    /\ LET init == useLocalStorageInit(localStorage, storageMode, StorageKey(tableId),
                                       defaultTablePreferences)
       IN IF init.value.isNull
          THEN /\ tablePrefs' = [stage |-> "crashed", tableId |-> tableId,
                                 isInitialValue |-> FALSE,
                                 preferences |-> init.value, lastCall |-> "mount"]
               /\ UNCHANGED localStorage
          ELSE /\ tablePrefs' = [stage |-> "mounted", tableId |-> tableId,
                                 isInitialValue |-> init.isInitialValue,
                                 preferences |-> init.value,
                                 lastCall |-> "mount"]
               /\ localStorage' = PersistEffect(localStorage, storageMode,
                                                StorageKey(tableId), init.value)
    /\ UNCHANGED storageMode
    /\ UNCHANGED <<cacheVars, hookVars, netVars, componentVars>>
    /\ UNCHANGED controllerVars

\* setPreferences(prev => newValue): a new object, so the hook re-renders and
\* its effect writes the new state
setPreferences(newValue) ==
    /\ tablePrefs.stage = "mounted"
    /\ tablePrefs' = [tablePrefs EXCEPT !.preferences = newValue,
                                        !.isInitialValue = FALSE,
                                        !.lastCall = "update"]
    /\ localStorage' = PersistEffect(localStorage, storageMode,
                                     StorageKey(tablePrefs.tableId), newValue)
    /\ UNCHANGED storageMode
    /\ UNCHANGED <<cacheVars, hookVars, netVars, componentVars>>
    /\ UNCHANGED controllerVars

updateColumnVisibility(columnVisibility) ==
    setPreferences([tablePrefs.preferences EXCEPT !.columnVisibility = columnVisibility])

updateSorting(sorting) ==
    setPreferences([tablePrefs.preferences EXCEPT !.sorting = sorting])

updateDensity(density) ==
    setPreferences([tablePrefs.preferences EXCEPT !.density = density])

\* a reset that only removes the entry
resetPreferences_RemoveOnly ==
    /\ tablePrefs.stage = "mounted"
    /\ localStorage' = removeItem(localStorage, storageMode, StorageKey(tablePrefs.tableId))
    /\ tablePrefs' = [tablePrefs EXCEPT !.lastCall = "reset"]
    /\ UNCHANGED storageMode
    /\ UNCHANGED <<cacheVars, hookVars, netVars, componentVars>>
    /\ UNCHANGED controllerVars

\* resetPreferences, the removeValue of useLocalStorage: removeItem, then
\* setStoredValue(initialValue), both inside one try.  When removeItem throws
\* the state is not set.  Setting the state to the object it already is does
\* not re-render; otherwise the re-render runs the effect, which writes the
\* initial value to the storage again
resetPreferences ==
    /\ tablePrefs.stage = "mounted"
    /\ IF storageMode = "disabled"
       THEN /\ tablePrefs' = [tablePrefs EXCEPT !.lastCall = "reset"]
            /\ UNCHANGED localStorage
       ELSE /\ tablePrefs' = [tablePrefs EXCEPT !.preferences = defaultTablePreferences,
                                                !.isInitialValue = TRUE,
                                                !.lastCall = "reset"]
            /\ localStorage' =
                  IF tablePrefs.isInitialValue
                  THEN removeItem(localStorage, storageMode, StorageKey(tablePrefs.tableId))
                  ELSE PersistEffect(removeItem(localStorage, storageMode,
                                                StorageKey(tablePrefs.tableId)),
                                     storageMode, StorageKey(tablePrefs.tableId),
                                     defaultTablePreferences)
    /\ UNCHANGED storageMode
    /\ UNCHANGED <<cacheVars, hookVars, netVars, componentVars>>
    /\ UNCHANGED controllerVars

\* the page is reloaded: the state of the hook is gone, the storage stays
reload ==
    /\ tablePrefs.stage # "none"
    /\ tablePrefs' = NoTable
    /\ UNCHANGED <<localStorage, storageMode>>
    /\ UNCHANGED <<cacheVars, hookVars, netVars, componentVars>>
    /\ UNCHANGED controllerVars

\* the specifications of the page do not mount the preferences
PreferencesNotLoaded ==
    /\ localStorage = [key \in StorageKeys |-> NoItem]
    /\ storageMode = "working"
    /\ tablePrefs = NoTable

\* the entries a storage can hold when a grid first mounts: none, the empty
\* text, a truncated text, null, and preferences saved earlier
InitialItems ==
    {NoItem, Item(<<>>), Item(TruncatedText), Item(JSONstringify(Null)),
     Item(JSONstringify([defaultTablePreferences EXCEPT !.density = "compact"]))}

StorageModes == {"working", "quota", "disabled"}

(***************************************************************************)
(* Status mutations and the render that follows them: React Query hands a   *)
(* change of its store to the subscribed components in a later task, and    *)
(* the rows on the screen are those of the latest render                    *)
(***************************************************************************)
\* the status toggles of a session
MaxToggles == 2

\* UsersPage has not rendered any row (earlier holds the mutations in flight
\* that the useMutation observer no longer follows)
NothingRendered == [isUpdating |-> FALSE, rows |-> <<>>, earlier |-> <<>>]

\* the mutations in flight
InFlight == Len(pageRender.earlier) + (IF mutation.phase = "pending" THEN 1 ELSE 0)

\* the subscribers of the store are notified and UsersPage renders: isUpdating
\* is the isPending of the observer, the rows are usersWithActions
RenderPage ==
    /\ <<pageRender.isUpdating, pageRender.rows>> # <<isUpdating, GridRows>>
    /\ pageRender' = [pageRender EXCEPT !.isUpdating = isUpdating, !.rows = GridRows]
    /\ UNCHANGED <<cacheVars, controllerVars, hookVars, storeVars, netVars,
                   boundary, chipCell, userActions>>

\* the toggle of row i on the screen is used (with the confirmation of the
\* dialog where the row is active): UserActions renders the button unless its
\* isUpdating prop is set, and calls onToggleStatus = handleToggleStatus,
\* which calls updateStatus; onMutate runs before the next task
ClickToggle(i) ==
    /\ ~pageRender.isUpdating
    /\ i \in 1..Len(pageRender.rows)
    /\ ~isOffline
    /\ mutation.mutationId < MaxToggles
    /\ LET user == pageRender.rows[i]
           newStatus == ToggleTarget(user)
       IN /\ cache' = onMutateCache(cache, user.userId, newStatus)
          /\ mutation' = [phase |-> "pending",
                          status |-> newStatus,
                          userId |-> user.userId,
                          mutationId |-> mutation.mutationId + 1,
                          previousQueries |-> onMutateContext(cache)]
    /\ pageRender' = [pageRender EXCEPT
                         !.earlier = IF mutation.phase = "pending"
                                     THEN Append(@, mutation) ELSE @]
    /\ UNCHANGED <<viewKey, serverStatus, isOnline, navigatorOnLine, snackbar>>
    /\ UNCHANGED <<controllerVars, hookVars, storeVars, netVars,
                   boundary, chipCell, userActions>>

\* the PATCH of a mutation the observer no longer follows settles: the
\* callbacks of the hook run (onError, onSettled), those handed to
\* updateStatus do not
EarlierMutationSettles(ok) ==
    /\ pageRender.earlier # <<>>
    /\ LET m == Head(pageRender.earlier)
       IN /\ serverStatus' = IF ok THEN [serverStatus EXCEPT ![m.userId] = m.status]
                             ELSE serverStatus
          /\ cache' = IF ok THEN onSettled(cache, viewKey)
                      ELSE onFailure(cache, m.previousQueries, viewKey)
    /\ pageRender' = [pageRender EXCEPT !.earlier = Tail(@)]
    /\ UNCHANGED <<viewKey, mutation, isOnline, navigatorOnLine, snackbar>>
    /\ UNCHANGED <<controllerVars, hookVars, storeVars, netVars,
                   boundary, chipCell, userActions>>

(***************************************************************************)
(* Components on their own: the ErrorBoundary                               *)
(***************************************************************************)
\* the errors a component of the subtree throws while rendering
Faults == {"TypeError", "RangeError"}

\* the component stacks React reports with a fault (ErrorInfo)
ComponentStacks == {"in UsersPage", "in DynamicGrid"}

\* the faults the boundary goes through
MaxFaults == 3

\* error: null, errorInfo: null
NoFault == "null"

\* constructor: this.state = { hasError: false, error: null, errorInfo: null }
\* (shown is what the boundary has put on the screen, log the console.error
\* calls, rethrown whether a fault left the boundary upwards)
ErrorBoundary(fallback) ==
    [error |-> NoFault, fallback |-> fallback, hasError |-> FALSE,
     errorInfo |-> NoFault, shown |-> "nothing", log |-> <<>>, rethrown |-> FALSE]

\* static getDerivedStateFromError(error): the partial state React merges
getDerivedStateFromError(b, err) ==
    [b EXCEPT !.hasError = TRUE, !.error = err]

\* a componentDidCatch that throws the error on to the parent
componentDidCatch_Rethrow(b, err, errorInfo) ==
    [b EXCEPT !.log = Append(Append(@, err), errorInfo), !.errorInfo = errorInfo,
              !.rethrown = TRUE]

\* componentDidCatch(error, errorInfo): two console.error calls, setState({ errorInfo })
componentDidCatch(b, err, errorInfo) ==
    [b EXCEPT !.log = Append(Append(@, err), errorInfo), !.errorInfo = errorInfo]

\* render(): the custom fallback, the default panel with its Try Again button,
\* or the children
render(b) ==
    IF b.hasError
    THEN IF b.fallback # "none" THEN "fallback" ELSE "panel"
    ELSE "children"

\* render() returned the children, and they rendered
RenderChildren ==
    /\ ~boundary.hasError
    /\ ~boundary.rethrown
    /\ boundary.shown # "children"
    /\ boundary' = [boundary EXCEPT !.shown = render(boundary)]
    /\ UNCHANGED <<cacheVars, controllerVars, hookVars, storeVars, netVars,
                   chipCell, userActions, pageRender>>

\* render() returned the children, and one of them threw: React calls
\* getDerivedStateFromError, renders the boundary again and, in the commit,
\* componentDidCatch
RenderFault(err, errorInfo) ==
    /\ ~boundary.hasError
    /\ ~boundary.rethrown
    /\ Len(boundary.log) < 2 * MaxFaults
    /\ LET caught == componentDidCatch(getDerivedStateFromError(boundary, err),
                                       err, errorInfo)
       IN boundary' = [caught EXCEPT !.shown = render(caught)]
    /\ UNCHANGED <<cacheVars, controllerVars, hookVars, storeVars, netVars,
                   chipCell, userActions, pageRender>>

\* handleRetry, the onClick of the Try Again button of the default panel:
\* setState({ hasError: false, error: null, errorInfo: null }); the render
\* that follows is RenderChildren or RenderFault
handleBoundaryRetry ==
    /\ boundary.hasError
    /\ ~boundary.rethrown
    /\ boundary.shown = "panel"
    /\ boundary' = [boundary EXCEPT !.hasError = FALSE, !.error = NoFault,
                                    !.errorInfo = NoFault]
    /\ UNCHANGED <<cacheVars, controllerVars, hookVars, storeVars, netVars,
                   chipCell, userActions, pageRender>>

(***************************************************************************)
(* Components on their own: the chiplist cell of the grid                   *)
(***************************************************************************)
\* the longest list of groups of a cell
MaxGroups == 4

\* Group: { groupId, groupName, roles }; the names are sequences of
\* characters, roles is not defined where the backend left the field out
Groups ==
    { [groupId |-> "1", groupName |-> <<"A","d","m","i","n","s">>,
       roles |-> [defined |-> TRUE, roleNames |-> <<>>]],
      [groupId |-> "2", groupName |-> <<"U","s","e","r","s">>,
       roles |-> [defined |-> FALSE, roleNames |-> <<>>]],
      [groupId |-> "g-123",
       groupName |-> <<"C","o","n","t","e","n","t"," ","T","e","a","m">>,
       roles |-> [defined |-> TRUE, roleNames |-> <<"Editor", "Reviewer">>]],
      [groupId |-> "4", groupName |-> <<"R","e","a","d"," ","O","n","l","y">>,
       roles |-> [defined |-> TRUE, roleNames |-> <<"Viewer">>]] }

\* a cell without a value (undefined or null)
MissingValue == [defined |-> FALSE, groups |-> <<>>]

\* the values of a chiplist cell: no value, or the groups of a user, each once
CellValues ==
    {MissingValue} \cup
    {[defined |-> TRUE, groups |-> list] :
        list \in {l \in UNION {[1..n -> Groups] : n \in 0..MaxGroups} :
                     \A i, j \in 1..Len(l) : l[i] = l[j] => i = j}}

\* <span style={{ color: '#999' }}>No groups</span>
NoGroupsPlaceholder == [placeholder |-> "No groups", chips |-> <<>>]

\* getGroupColor(groupName)
getGroupColor(groupName) ==
    LET name == toLowerCase(groupName)
    IN IF includes(name, <<"a","d","m","i","n">>) THEN "error"
       ELSE IF includes(name, <<"m","a","n","a","g","e","m","e","n","t">>) THEN "warning"
       ELSE IF includes(name, <<"c","o","n","t","e","n","t">>) THEN "info"
       ELSE IF includes(name, <<"s","t","a","n","d","a","r","d">>) THEN "secondary"
       ELSE IF includes(name, <<"r","e","a","d"," ","o","n","l","y">>) THEN "success"
       ELSE "default"

\* getGroupIcon(groupName)
getGroupIcon(groupName) ==
    LET name == toLowerCase(groupName)
    IN IF includes(name, <<"a","d","m","i","n">>) THEN "AdminPanelSettingsIcon"
       ELSE IF includes(name, <<"m","a","n","a","g","e","m","e","n","t">>)
            THEN "SupervisorAccountIcon"
       ELSE IF includes(name, <<"r","e","a","d"," ","o","n","l","y">>) THEN "VisibilityIcon"
       ELSE IF includes(name, <<"c","o","n","t","e","n","t">>) THEN "CreateIcon"
       ELSE IF includes(name, <<"s","t","a","n","d","a","r","d">>) THEN "PersonIcon"
       ELSE "null"

\* roles.map(r => r.roleName).join(', ')
RECURSIVE join(_, _)
join(names, i) ==
    IF i > Len(names) THEN <<>>
    ELSE (IF i > 1 THEN <<", ">> ELSE <<>>) \o <<names[i]>> \o join(names, i + 1)

\* the title of the Tooltip: group.roles?.length > 0 ? `Roles: ...` : 'No specific roles'
TooltipTitle(group) ==
    IF group.roles.defined /\ Len(group.roles.roleNames) > 0
    THEN <<"Roles: ">> \o join(group.roles.roleNames, 1)
    ELSE <<"No specific roles">>

\* a chip labelled with the group object itself, which React turns into text
ChipLabel_Stringified(group) == <<"[","o","b","j","e","c","t"," ","O","b","j","e","c","t","]">>

\* label={group.groupName}
ChipLabel(group) == group.groupName

\* the Tooltip and Chip of one group
GroupChip(group) ==
    LET color == getGroupColor(group.groupName)
        icon == getGroupIcon(group.groupName)
        isSpecial == color # "default"
    IN [key |-> group.groupId, color |-> color, icon |-> icon,
        title |-> TooltipTitle(group), label |-> ChipLabel(group),
        variant |-> IF isSpecial THEN "filled" ELSE "outlined"]

\* renderCellByType(value, columnMeta) for columnMeta.type = 'chiplist'
renderCellByType(value) ==
    IF ~value.defined \/ Len(value.groups) = 0
    THEN NoGroupsPlaceholder
    ELSE [placeholder |-> "none",
          chips |-> [i \in 1..Len(value.groups) |-> GroupChip(value.groups[i])]]

\* the chiplist case of the earlier grid: outlined chips without colour or icon
LegacyRenderCellByType(value) ==
    IF ~value.defined \/ Len(value.groups) = 0
    THEN NoGroupsPlaceholder
    ELSE [placeholder |-> "none",
          chips |-> [i \in 1..Len(value.groups) |->
                        [key |-> value.groups[i].groupId,
                         label |-> value.groups[i].groupName,
                         variant |-> "outlined"]]]

NotRendered == [placeholder |-> "none", chips |-> <<>>]

\* the cell of a row before the grid has rendered it
Cell(value) ==
    [value |-> value, rendered |-> FALSE, output |-> NotRendered, legacy |-> NotRendered]

\* the grid renders the cell: accessorFn hands the value to the renderer
RenderCell ==
    /\ ~chipCell.rendered
    /\ chipCell' = [chipCell EXCEPT !.rendered = TRUE,
                                    !.output = renderCellByType(chipCell.value),
                                    !.legacy = LegacyRenderCellByType(chipCell.value)]
    /\ UNCHANGED <<cacheVars, controllerVars, hookVars, storeVars, netVars,
                   boundary, userActions, pageRender>>

\* the row is replaced by one with another value (a refetch, another page)
ReplaceRow(value) ==
    /\ chipCell.rendered
    /\ value # chipCell.value
    /\ chipCell' = Cell(value)
    /\ UNCHANGED <<cacheVars, controllerVars, hookVars, storeVars, netVars,
                   boundary, userActions, pageRender>>

(***************************************************************************)
(* Components on their own: the UserActions of a row                        *)
(***************************************************************************)
\* the onToggleStatus calls a row goes through
MaxCalls == 2

\* the user prop of a row
RowUsers == [status : Statuses, userId : UserIds]

\* the keys of a keydown event on the toggle button
Keys == {"Enter", " ", "Tab"}

\* UserActions on its first render with the props of the row: useState(false)
\* (openedFor is the user whose toggle opened the dialog, calls the
\* onToggleStatus calls made so far)
UserActions(user, updating) ==
    [user |-> user, isUpdating |-> updating, confirmDialogOpen |-> FALSE,
     openedFor |-> "none", calls |-> <<>>]

\* the toggle button is on screen: no spinner in its place and no modal
\* dialog over it
ToggleButtonShown == ~userActions.isUpdating /\ ~userActions.confirmDialogOpen

\* the dialog is on screen
DialogShown == ~userActions.isUpdating /\ userActions.confirmDialogOpen

\* props.onToggleStatus(userId, newStatus)
onToggleStatus(ua, userId, newStatus) ==
    [ua EXCEPT !.calls = Append(@, [status |-> newStatus, userId |-> userId])]

\* the body of handleToggleClick
handleToggleClick(ua) ==
    IF ua.user.status = "active"
    THEN [ua EXCEPT !.confirmDialogOpen = TRUE, !.openedFor = ua.user.userId]
    ELSE onToggleStatus(ua, ua.user.userId, "active")

\* a click on the toggle button
ToggleClick ==
    /\ ToggleButtonShown
    /\ Len(userActions.calls) < MaxCalls
    /\ userActions' = handleToggleClick(userActions)
    /\ UNCHANGED <<cacheVars, controllerVars, hookVars, storeVars, netVars,
                   boundary, chipCell, pageRender>>

\* handleKeyDown(event) on the toggle button
handleKeyDown(key) ==
    /\ ToggleButtonShown
    /\ Len(userActions.calls) < MaxCalls
    /\ userActions' = IF key = "Enter" \/ key = " "
                      THEN handleToggleClick(userActions)
                      ELSE userActions
    /\ UNCHANGED <<cacheVars, controllerVars, hookVars, storeVars, netVars,
                   boundary, chipCell, pageRender>>

\* handleConfirmDeactivate, the onClick of the Deactivate button of the dialog
handleConfirmDeactivate ==
    /\ DialogShown
    /\ Len(userActions.calls) < MaxCalls
    /\ userActions' = onToggleStatus([userActions EXCEPT !.confirmDialogOpen = FALSE,
                                                         !.openedFor = "none"],
                                     userActions.user.userId, "inactive")
    /\ UNCHANGED <<cacheVars, controllerVars, hookVars, storeVars, netVars,
                   boundary, chipCell, pageRender>>

\* handleCancelDialog, the onClick of Cancel and the onClose of the dialog
handleCancelDialog ==
    /\ DialogShown
    /\ userActions' = [userActions EXCEPT !.confirmDialogOpen = FALSE,
                                          !.openedFor = "none"]
    /\ UNCHANGED <<cacheVars, controllerVars, hookVars, storeVars, netVars,
                   boundary, chipCell, pageRender>>

\* the page renders the row again with other props (the rows come from the
\* latest data and isUpdating from the mutation); the state of the
\* component is kept
RenderRow(user, updating) ==
    /\ <<user, updating>> # <<userActions.user, userActions.isUpdating>>
    /\ userActions' = [userActions EXCEPT !.user = user, !.isUpdating = updating]
    /\ UNCHANGED <<cacheVars, controllerVars, hookVars, storeVars, netVars,
                   boundary, chipCell, pageRender>>

\* the components as long as nothing renders them
ComponentsNotRendered ==
    /\ boundary = ErrorBoundary("none")
    /\ chipCell = Cell(MissingValue)
    /\ userActions = UserActions([status |-> "active", userId |-> AllUsers[1]], FALSE)
    /\ pageRender = NothingRendered

(***************************************************************************)
(* Initial states and specifications                                       *)
(***************************************************************************)
EmptyUrl ==
    [page |-> Absent(<<>>), pageSize |-> Absent(<<>>), query |-> Absent(""),
     status |-> Absent("")]

\* the URLs the page is opened with
InitialUrls ==
    [page : {Absent(<<>>)} \cup {Param(x) : x \in {<<>>, <<"1">>, <<"3">>, <<"0">>,
                                                  <<"3", "x">>, <<"x">>}},
     pageSize : {Absent(<<>>)} \cup {Param(x) : x \in {<<"1", "0">>, <<"2", "0">>, <<"0">>}},
     query : {Absent("")} \cup {Param(x) : x \in {"", "bo"}},
     status : {Absent("")} \cup {Param(x) : x \in {"", "all", "active", "foo"}}]

ViewAt(u) ==
    /\ phase = "rendered"
    /\ searchQuery = FirstRender(u).searchQuery
    /\ statusFilter = FirstRender(u).statusFilter
    /\ pagination = FirstRender(u).pagination
    /\ debouncedSearchQuery = FirstRender(u).debouncedSearchQuery
    /\ timer = FirstRender(u).timer
    /\ isInitialMount = FirstRender(u).isInitialMount
    /\ prevSearchQuery = FirstRender(u).prevSearchQuery
    /\ prevStatusFilter = FirstRender(u).prevStatusFilter
    /\ url = u
    /\ requested = <<>>

CacheAt(k, st, onLine) ==
    /\ viewKey = k
    /\ cache = useUsers([x \in QueryKeys |-> NoQuery], k, TRUE)
    /\ serverStatus = st
    /\ mutation = IdleMutation
    /\ isOnline = onLine
    /\ navigatorOnLine = onLine
    /\ snackbar = "none"

DefaultKey ==
    [page |-> 1, pageSize |-> DefaultPageSize, query |-> "", status |-> "all"]

\* the cache specification: the page has just been opened on some params
Init ==
    /\ wireTap = FALSE
    /\ \E k \in QueryKeys, st \in [UserIds -> Statuses], onLine \in BOOLEAN :
          CacheAt(k, st, onLine)
    /\ ViewAt(EmptyUrl)
    /\ HookNotRendered
    /\ ComponentsNotRendered
    /\ PreferencesNotLoaded
    /\ MonitorNotObserved

Next ==
    \/ \E i \in 1..Len(AllUsers) : handleToggleStatus(i)
    \/ MutationSuccess
    \/ \E msg \in ErrorMessages, applied \in BOOLEAN : MutationError(msg, applied)
    \/ \E k \in QueryKeys : FetchSuccess(k)
    \/ \E k \in QueryKeys, msg \in ErrorMessages : FetchError(k, msg)
    \/ \E k \in QueryKeys, elapsed \in BOOLEAN : SetParams(k, elapsed)
    \/ handleRetry
    \/ handleOnline
    \/ handleOffline

Spec == Init /\ [][Next]_vars

\* the cache specification with the requests on the network observed
WireInit ==
    /\ wireTap = TRUE
    /\ \E k \in QueryKeys, st \in [UserIds -> Statuses], onLine \in BOOLEAN :
          CacheAt(k, st, onLine)
    /\ ViewAt(EmptyUrl)
    /\ HookNotRendered
    /\ ComponentsNotRendered
    /\ PreferencesNotLoaded
    /\ MonitorNotObserved

WireNext ==
    \/ Next
    \/ \E k \in QueryKeys : SupersededResponse(k)

WireSpec == WireInit /\ [][WireNext]_vars

\* the fetch in flight of key k is answered, one way or the other
FetchResolves(k) == FetchSuccess(k) \/ \E msg \in ErrorMessages : FetchError(k, msg)

\* the cache specification in which every fetch in flight is eventually
\* answered
FairSpec == Spec /\ \A k \in QueryKeys : WF_vars(FetchResolves(k))

\* the controller specification: the page is opened with some URL
ViewInit ==
    /\ wireTap = FALSE
    /\ \E u \in InitialUrls : ViewAt(u)
    /\ CacheAt(DefaultKey, [x \in UserIds |-> "active"], TRUE)
    /\ HookNotRendered
    /\ ComponentsNotRendered
    /\ PreferencesNotLoaded
    /\ MonitorNotObserved

ViewNext ==
    \/ MountEffects
    \/ \E text \in SearchTexts : handleSearchChange(text)
    \/ \E value \in StatusFilters : handleStatusFilterChange(value)
    \/ \E p \in 0..MaxPageIndex, size \in PageSizes :
          handlePaginationChange([pageSize |-> Num(size), pageIndex |-> Num(p)])
    \/ DebounceTimeout

ViewSpec == ViewInit /\ [][ViewNext]_vars

\* the preferences of a grid over a storage that works, is full, or is disabled
PrefInit ==
    /\ wireTap = FALSE
    /\ HookNotRendered
    /\ ComponentsNotRendered
    /\ ViewAt(EmptyUrl)
    /\ CacheAt(DefaultKey, [x \in UserIds |-> "active"], TRUE)
    /\ localStorage \in [StorageKeys -> InitialItems]
    /\ storageMode \in StorageModes
    /\ tablePrefs = NoTable
    /\ MonitorNotObserved

PrefNext ==
    \/ \E tableId \in TableIds : useTablePreferences(tableId)
    \/ \E columnVisibility \in VisibilityStates : updateColumnVisibility(columnVisibility)
    \/ \E sorting \in SortingStates : updateSorting(sorting)
    \/ \E density \in Densities : updateDensity(density)
    \/ resetPreferences
    \/ reload

PrefSpec == PrefInit /\ [][PrefNext]_vars

\* the monitor on its first render, under either connectivity
NetInit ==
    /\ wireTap = FALSE
    /\ HookNotRendered
    /\ ComponentsNotRendered
    /\ PreferencesNotLoaded
    /\ ViewAt(EmptyUrl)
    /\ \E onLine \in BOOLEAN : CacheAt(DefaultKey, [x \in UserIds |-> "active"], onLine)
    /\ monitor = MonitorRendered
    /\ classified = NotClassified

NetNext ==
    \/ useNetworkStatus
    \/ useNetworkStatusEffect
    \/ useNetworkStatusCleanup
    \/ \E online \in BOOLEAN : ConnectivityEvent(online)
    \/ \E err \in ErrorValues : Classify(err)

NetSpec == NetInit /\ [][NetNext]_vars

\* the boundary has just been constructed, with or without a custom fallback
BoundaryInit ==
    /\ wireTap = FALSE
    /\ HookNotRendered
    /\ PreferencesNotLoaded
    /\ MonitorNotObserved
    /\ ViewAt(EmptyUrl)
    /\ CacheAt(DefaultKey, [x \in UserIds |-> "active"], TRUE)
    /\ boundary \in {ErrorBoundary(fallback) : fallback \in {"none", "custom"}}
    /\ chipCell = Cell(MissingValue)
    /\ userActions = UserActions([status |-> "active", userId |-> AllUsers[1]], FALSE)
    /\ pageRender = NothingRendered

BoundaryNext ==
    \/ RenderChildren
    \/ \E err \in Faults, errorInfo \in ComponentStacks : RenderFault(err, errorInfo)
    \/ handleBoundaryRetry

BoundarySpec == BoundaryInit /\ [][BoundaryNext]_vars

\* a chiplist cell holding any of the values, not yet rendered
ChipInit ==
    /\ wireTap = FALSE
    /\ HookNotRendered
    /\ PreferencesNotLoaded
    /\ MonitorNotObserved
    /\ ViewAt(EmptyUrl)
    /\ CacheAt(DefaultKey, [x \in UserIds |-> "active"], TRUE)
    /\ boundary = ErrorBoundary("none")
    /\ chipCell \in {Cell(value) : value \in CellValues}
    /\ userActions = UserActions([status |-> "active", userId |-> AllUsers[1]], FALSE)
    /\ pageRender = NothingRendered

ChipNext ==
    \/ RenderCell
    \/ \E value \in CellValues : ReplaceRow(value)

ChipSpec == ChipInit /\ [][ChipNext]_vars

\* the row of any user, on its first render
ActionsInit ==
    /\ wireTap = FALSE
    /\ HookNotRendered
    /\ PreferencesNotLoaded
    /\ MonitorNotObserved
    /\ ViewAt(EmptyUrl)
    /\ CacheAt(DefaultKey, [x \in UserIds |-> "active"], TRUE)
    /\ boundary = ErrorBoundary("none")
    /\ chipCell = Cell(MissingValue)
    /\ userActions \in {UserActions(user, FALSE) : user \in RowUsers}
    /\ pageRender = NothingRendered

ActionsNext ==
    \/ ToggleClick
    \/ \E key \in Keys : handleKeyDown(key)
    \/ handleConfirmDeactivate
    \/ handleCancelDialog
    \/ \E user \in RowUsers, updating \in BOOLEAN : RenderRow(user, updating)

ActionsSpec == ActionsInit /\ [][ActionsNext]_vars

\* the page has just been opened on the default params, online
RenderInit ==
    /\ wireTap = FALSE
    /\ HookNotRendered
    /\ ComponentsNotRendered
    /\ PreferencesNotLoaded
    /\ MonitorNotObserved
    /\ ViewAt(EmptyUrl)
    /\ \E st \in [UserIds -> Statuses] : CacheAt(DefaultKey, st, TRUE)

RenderNext ==
    \/ RenderPage
    \/ \E i \in 1..Len(AllUsers) : ClickToggle(i)
    \/ MutationSuccess
    \/ \E msg \in ErrorMessages, applied \in BOOLEAN : MutationError(msg, applied)
    \/ \E ok \in BOOLEAN : EarlierMutationSettles(ok)
    \/ \E k \in QueryKeys : FetchSuccess(k)

RenderSpec == RenderInit /\ [][RenderNext]_vars

(***************************************************************************)
(* The earlier UsersPage (src/pages/UsersPage/UsersPage.tsx)               *)
(***************************************************************************)
\* the URL written by the sync effect of the earlier UsersPage: the page only
\* past the first one, the debounced search text
LegacySyncUrl(v) ==
    [page |-> IF ~v.pagination.pageIndex.nan /\ v.pagination.pageIndex.n > 0
              THEN Param(String(Plus(v.pagination.pageIndex, 1))) ELSE Absent(<<>>),
     pageSize |-> IF v.pagination.pageSize # Num(DefaultPageSize)
                  THEN Param(String(v.pagination.pageSize)) ELSE Absent(<<>>),
     query |-> IF v.debouncedSearchQuery # ""
               THEN Param(v.debouncedSearchQuery) ELSE Absent(""),
     status |-> IF v.statusFilter # "all" THEN Param(v.statusFilter) ELSE Absent("")]

LegacyUrlSyncEffect(prev, v, mount) ==
    IF \/ mount
       \/ v.pagination # prev.pagination
       \/ v.statusFilter # prev.statusFilter
       \/ v.debouncedSearchQuery # prev.debouncedSearchQuery
    THEN [v EXCEPT !.url = LegacySyncUrl(v)]
    ELSE v

\* the earlier UsersPage has the debounce and the URL effect only
LegacyRunEffects(prev, v, mount) ==
    useUsersEffect(prev, LegacyUrlSyncEffect(prev, DebounceEffect(prev, v, mount), mount),
                   mount)

LegacyMountEffects ==
    /\ phase = "rendered"
    /\ phase' = "mounted"
    /\ Commit(LegacyRunEffects(CurrentView, CurrentView, TRUE))
    /\ UNCHANGED cacheVars

LegacyHandleSearchChange(text) ==
    /\ phase = "mounted"
    /\ text # searchQuery
    /\ Commit(LegacyRunEffects(CurrentView,
                               [CurrentView EXCEPT
                                  !.searchQuery = text,
                                  !.pagination = [pagination EXCEPT !.pageIndex = Num(0)]],
                               FALSE))
    /\ UNCHANGED phase
    /\ UNCHANGED cacheVars

LegacyHandleStatusFilterChange(value) ==
    /\ phase = "mounted"
    /\ value # statusFilter
    /\ Commit(LegacyRunEffects(CurrentView,
                               [CurrentView EXCEPT
                                  !.statusFilter = value,
                                  !.pagination = [pagination EXCEPT !.pageIndex = Num(0)]],
                               FALSE))
    /\ UNCHANGED phase
    /\ UNCHANGED cacheVars

LegacyHandlePaginationChange(newPagination) ==
    /\ phase = "mounted"
    /\ newPagination # pagination
    /\ Commit(LegacyRunEffects(CurrentView,
                               [CurrentView EXCEPT !.pagination = newPagination], FALSE))
    /\ UNCHANGED phase
    /\ UNCHANGED cacheVars

LegacyDebounceTimeout ==
    /\ phase = "mounted"
    /\ timer.pending
    /\ Commit(LegacyRunEffects(CurrentView,
                               [CurrentView EXCEPT !.debouncedSearchQuery = timer.value,
                                                   !.timer = NoTimer],
                               FALSE))
    /\ UNCHANGED phase
    /\ UNCHANGED cacheVars

LegacyViewNext ==
    \/ LegacyMountEffects
    \/ \E text \in SearchTexts : LegacyHandleSearchChange(text)
    \/ \E value \in StatusFilters : LegacyHandleStatusFilterChange(value)
    \/ \E p \in 0..MaxPageIndex, size \in PageSizes :
          LegacyHandlePaginationChange([pageSize |-> Num(size), pageIndex |-> Num(p)])
    \/ LegacyDebounceTimeout

LegacyViewSpec == ViewInit /\ [][LegacyViewNext]_vars

\* the hook specification: the test renders the hook, re-renders it with other
\* arguments, advances the fake clock and unmounts it
DebounceInit ==
    /\ wireTap = FALSE
    /\ HookNotRendered
    /\ ComponentsNotRendered
    /\ PreferencesNotLoaded
    /\ MonitorNotObserved
    /\ ViewAt(EmptyUrl)
    /\ CacheAt(DefaultKey, [x \in UserIds |-> "active"], TRUE)

DebounceNext ==
    \/ \E value \in DebounceValues, delay \in 0..MaxDelay : renderHook(value, delay)
    \/ \E value \in DebounceValues : rerender(value)
    \/ \E ms \in 0..1 : advanceTimersByTime(ms)
    \/ unmount

DebounceSpec == DebounceInit /\ [][DebounceNext]_vars

(***************************************************************************)
(* Properties of the remote data cache                                     *)
(***************************************************************************)
\* a step in which the mutation starts: onMutate has run
MutationStarts == mutation.phase = "idle" /\ mutation'.phase = "pending"

\* a step in which the network call of the mutation fails
MutationFails == \E msg \in ErrorMessages, applied \in BOOLEAN : MutationError(msg, applied)

\* the user's status in every entry of a page that lists the user
StatusIn(page, userId, status) ==
    \A i \in 1..Len(page.users) : page.users[i].userId = userId => page.users[i].status = status

Lists(page, userId) == \E i \in 1..Len(page.users) : page.users[i].userId = userId

\* C1: when the network call of a status mutation has failed and onError has
\* run, every users query that was in the cache when the mutation started holds
\* exactly the data it held right before the optimistic write.
C1_RollbackRestoresEveryQuery ==
    [][MutationFails =>
         \A k \in QueryKeys :
            mutation.previousQueries[k].cached =>
               cache'[k].data = mutation.previousQueries[k].data]_vars

\* C2: when a status mutation starts, the fetches in flight are cancelled before
\* the optimistic write: once onMutate has run no fetch issued before the
\* mutation is in flight, so no response of such a fetch can reach the cache.
C2_FetchesCancelledBeforeOptimisticWrite ==
    [][MutationStarts => \A k \in QueryKeys : ~cache'[k].fetching]_vars

\* a mutation is pending and a fetch that was in flight for a query without
\* data has been cancelled (the query is back to pending and idle)
C2_Witness ==
    /\ mutation.phase = "pending"
    /\ \E k \in QueryKeys :
          /\ mutation.previousQueries[k].cached
          /\ ~mutation.previousQueries[k].data.defined
          /\ cache[k].status = "pending"
          /\ ~cache[k].fetching

\* C3: when mutateStatus(userId, newStatus) starts, every cached users page
\* that lists userId shows newStatus for that user, before the network call
\* has responded.
C3_OptimisticWriteInEveryCachedPage ==
    [][MutationStarts =>
         \A k \in QueryKeys :
            cache'[k].data.defined =>
               StatusIn(cache'[k].data, mutation'.userId, mutation'.status)]_vars

\* a mutation is pending, two cached pages list the user with the new status
\* and the backend still holds the old one
C3_Witness ==
    /\ mutation.phase = "pending"
    /\ serverStatus[mutation.userId] # mutation.status
    /\ \E k1, k2 \in QueryKeys :
          /\ k1 # k2
          /\ Lists(cache[k1].data, mutation.userId)
          /\ Lists(cache[k2].data, mutation.userId)
          /\ StatusIn(cache[k1].data, mutation.userId, mutation.status)
          /\ StatusIn(cache[k2].data, mutation.userId, mutation.status)

\* C4: when a status mutation succeeds every cached users query is invalidated,
\* and the next subscription to an invalidated query re-fetches it whatever the
\* age of its data.
C4_SuccessInvalidatesEveryQuery ==
    [][/\ MutationSuccess => \A k \in QueryKeys : cache'[k].exists => cache'[k].isInvalidated
       /\ \A k \in QueryKeys :
             (cache[k].isInvalidated /\ SetParams(k, FALSE)) => cache'[k].fetching]_vars

\* a page that still holds the optimistic data of a succeeded mutation (it
\* differs from what the backend returns) is invalidated and is re-fetched by
\* being displayed
C4_Witness ==
    /\ mutation.phase = "idle"
    /\ snackbar = "success"
    /\ cache[viewKey].fetching
    /\ cache[viewKey].isInvalidated
    /\ cache[viewKey].data.defined
    /\ cache[viewKey].data # fetchUsers(viewKey, serverStatus)

\* C5: when a status mutation fails, the snapshotted pages are restored and the
\* key family is invalidated after that (the restored pages end up invalidated),
\* for every error message and connectivity state.
C5_FailureRestoresThenInvalidates ==
    [][MutationFails =>
         \A k \in QueryKeys :
            /\ (mutation.previousQueries[k].cached /\ mutation.previousQueries[k].data.defined)
                  => cache'[k].data = mutation.previousQueries[k].data
            /\ cache'[k].exists => cache'[k].isInvalidated
            /\ (k = viewKey /\ cache'[k].exists) => cache'[k].fetching]_vars

\* a failure that is not network-related has been rolled back: the displayed
\* page holds data again that is invalidated and being re-fetched
C5_Witness ==
    /\ mutation.phase = "idle"
    /\ snackbar = "error"
    /\ cache[viewKey].data.defined
    /\ cache[viewKey].isInvalidated
    /\ cache[viewKey].fetching

\* the cached page of key k equals what the backend returns for k
Synced(k) == cache[k].data = fetchUsers(k, serverStatus)

\* the last fetch of key k has failed
FetchFailed(k) == cache[k].error.isError /\ ~cache[k].fetching

\* C6: after a status mutation has settled, the cached page of the displayed
\* params eventually equals the backend's data for them, unless a further
\* mutation starts, the params change or the re-fetch fails.
C6_DisplayedPageEventuallySynced ==
    \A k \in QueryKeys :
       (mutation.phase = "idle" /\ mutation.mutationId > 0 /\ viewKey = k)
          ~> (Synced(k) \/ viewKey # k \/ mutation.phase = "pending" \/ FetchFailed(k))

\* a mutation has settled and the displayed page has been reconciled with the
\* backend, while another cached page still holds data the backend no longer
\* returns
C6_Witness ==
    /\ mutation.phase = "idle"
    /\ mutation.mutationId > 0
    /\ Synced(viewKey)
    /\ ~cache[viewKey].fetching
    /\ ~cache[viewKey].isInvalidated
    /\ \E k \in QueryKeys :
          /\ k # viewKey
          /\ cache[k].data.defined
          /\ cache[k].isInvalidated
          /\ ~Synced(k)

(***************************************************************************)
(* Properties of the view-state controller                                 *)
(***************************************************************************)
\* the state a refresh would build from the current URL
Refreshed == FirstRender(url)

\* C7 as stated: in every reachable state, re-initialising the controller from
\* the current URL yields the QueryParams currently passed to the users fetch.
C7_UrlReproducesFetchParams == FetchParams(Refreshed) = FetchParams(CurrentView)

\* C7 as amended: re-initialising from the current URL yields the page, page
\* size and status passed to the users fetch and, as query, the current search
\* text; that is the query passed to the fetch except while a change of the
\* search text waits for the debounce delay.
C7_UrlReproducesViewState ==
    /\ Refreshed.pagination = pagination
    /\ Refreshed.statusFilter = statusFilter
    /\ Refreshed.searchQuery = searchQuery
    /\ FetchParams(Refreshed).page = FetchParams(CurrentView).page
    /\ FetchParams(Refreshed).pageSize = FetchParams(CurrentView).pageSize
    /\ FetchParams(Refreshed).status = FetchParams(CurrentView).status
    /\ FetchParams(Refreshed).query = searchQuery
    /\ searchQuery = debouncedSearchQuery
          => FetchParams(Refreshed) = FetchParams(CurrentView)

\* the operator is on page 3 of the active users and has typed a search text
\* that the debounce has not published yet; the URL has been rewritten
C7_Witness ==
    /\ phase = "mounted"
    /\ url.page = Param(<<"3">>)
    /\ url.status = Param("active")
    /\ url.query = Param("b")
    /\ searchQuery = "b"
    /\ debouncedSearchQuery = ""
    /\ timer.pending

\* C8: mounting the page with page=p, status=s, query=q in the URL yields page
\* p, status filter s and search text q, and neither the mount effects nor the
\* first debounce timeout (which publishes the unchanged text) reset the page.
C8_MountKeepsUrlState ==
    [][/\ MountEffects =>
            /\ pagination' = initPagination(url)
            /\ statusFilter' = initStatusFilter(url)
            /\ searchQuery' = initSearchQuery(url)
            /\ \A p \in 1..9 : url.page = Param(<<DigitChars[p + 1]>>)
                                  => pagination'.pageIndex = Num(p - 1)
            /\ (url.status.present /\ url.status.value # "")
                  => statusFilter' = url.status.value
            /\ url.query.present => searchQuery' = url.query.value
       /\ (DebounceTimeout /\ timer.value = debouncedSearchQuery)
             => pagination' = pagination]_vars

\* the page was opened with page=3&status=active&query=bo and mount effects
\* and debounce timeout have run
C8_Witness ==
    /\ phase = "mounted"
    /\ ~timer.pending
    /\ pagination = [pageSize |-> Num(DefaultPageSize), pageIndex |-> Num(2)]
    /\ statusFilter = "active"
    /\ searchQuery = "bo"
    /\ debouncedSearchQuery = "bo"
    /\ url.page = Param(<<"3">>)

\* C9: a change of the status filter to a different value resets the
\* pagination to page 1 and keeps the page size.
C9_StatusFilterChangeResetsPage ==
    [][\A value \in StatusFilters :
          handleStatusFilterChange(value) =>
             /\ statusFilter' = value
             /\ pagination'.pageIndex = Num(0)
             /\ pagination'.pageSize = pagination.pageSize]_vars

\* the filter was changed to inactive (no URL of the model opens with it) with
\* page size 20: the page is 1 and the size still 20
C9_Witness ==
    /\ phase = "mounted"
    /\ statusFilter = "inactive"
    /\ prevStatusFilter = "inactive"
    /\ pagination = [pageSize |-> Num(20), pageIndex |-> Num(0)]
    /\ url.page = Param(<<"1">>)

\* C10: handlePaginationChange(p) leaves the pagination at p, whatever page and
\* page size p holds, and afterwards the pagination changes only by another
\* pagination change, a status filter change or a debounce timeout that
\* publishes a different search text.
C10_PaginationChangeNeverResets ==
    [][/\ \A p \in 0..MaxPageIndex, size \in PageSizes :
             handlePaginationChange([pageSize |-> Num(size), pageIndex |-> Num(p)])
                => pagination' = [pageSize |-> Num(size), pageIndex |-> Num(p)]
       /\ pagination' # pagination =>
             \/ \E p \in 0..MaxPageIndex, size \in PageSizes :
                   handlePaginationChange([pageSize |-> Num(size), pageIndex |-> Num(p)])
             \/ \E value \in StatusFilters : handleStatusFilterChange(value)
             \/ DebounceTimeout /\ timer.value # debouncedSearchQuery]_vars

\* the operator went to page 2 (no URL of the model opens on it) with page
\* size 20, with a filter and a settled search text set
C10_Witness ==
    /\ phase = "mounted"
    /\ pagination = [pageSize |-> Num(20), pageIndex |-> Num(1)]
    /\ statusFilter = "active"
    /\ searchQuery = "bo"
    /\ debouncedSearchQuery = "bo"
    /\ ~timer.pending
    /\ url.page = Param(<<"2">>)
    /\ url.pageSize = Param(<<"2", "0">>)

\* C11: a debounce timeout that publishes a search text different from the
\* previously settled one resets the pagination to page 1 (keeping the page
\* size) and records the text as the settled one; a timeout that publishes the
\* previously settled text again, the operator having typed back to it within
\* the window, leaves the pagination alone.
C11_SettledSearchChangeResetsPage ==
    [][DebounceTimeout =>
          /\ debouncedSearchQuery' = timer.value
          /\ prevSearchQuery' = timer.value
          /\ IF timer.value # debouncedSearchQuery
             THEN /\ prevSearchQuery = debouncedSearchQuery
                  /\ pagination'.pageIndex = Num(0)
                  /\ pagination'.pageSize = pagination.pageSize
             ELSE pagination' = pagination]_vars

\* the search text "b" (no URL of the model opens with it) has settled: the
\* page is 1, the page size still 20
C11_Witness ==
    /\ phase = "mounted"
    /\ ~timer.pending
    /\ debouncedSearchQuery = "b"
    /\ prevSearchQuery = "b"
    /\ pagination = [pageSize |-> Num(20), pageIndex |-> Num(0)]
    /\ url.page = Param(<<"1">>)
    /\ url.query = Param("b")

\* C12: once the sync effect has run, the URL contains the 1-based page
\* always, the page size exactly when it differs from 10, the status exactly
\* when it is not 'all' and the query exactly when the search text is not
\* empty, each with the value of the view state (the URL of the model has no
\* other parameter).
C12_UrlHoldsPageAndNonDefaults ==
    phase = "mounted" =>
       /\ url.page = Param(String(Plus(pagination.pageIndex, 1)))
       /\ url.pageSize.present <=> pagination.pageSize # Num(DefaultPageSize)
       /\ url.pageSize.present => url.pageSize = Param(String(pagination.pageSize))
       /\ url.status.present <=> statusFilter # "all"
       /\ url.status.present => url.status = Param(statusFilter)
       /\ url.query.present <=> searchQuery # ""
       /\ url.query.present => url.query = Param(searchQuery)

(***************************************************************************)
(* Properties of the debounce utility                                      *)
(***************************************************************************)
\* a sequence of value updates, each arriving less than the delay after the
\* previous one (with delay 0 that is a single update), is over: the timer of
\* its last update has fired
SequenceOver ==
    /\ debounceHook.stage = "mounted"
    /\ fakeClock.updates > 0
    /\ debounceHook.delay > 0 \/ fakeClock.updates = 1
    /\ ~debounceHook.timer.pending

\* C13 as stated: when a sequence of rapid updates is over, the debounced
\* output has changed exactly once during it, to the last value, exactly the
\* delay after the last update.
C13_OutputChangesExactlyOnce ==
    SequenceOver =>
       /\ fakeClock.changes = 1
       /\ debounceHook.debouncedValue = debounceHook.value
       /\ fakeClock.changedAt = fakeClock.lastUpdateAt + debounceHook.delay

\* C13 as amended: while the sequence lasts the output has not changed, and
\* when it is over the output equals the last value; it has changed exactly
\* once, exactly the delay after the last update, unless the last value is the
\* one exposed before the sequence, in which case it has not changed at all.
C13_OutputChangesOnceUnlessSameValue ==
    /\ (debounceHook.timer.pending /\ fakeClock.updates > 0) => fakeClock.changes = 0
    /\ SequenceOver =>
          /\ debounceHook.debouncedValue = debounceHook.value
          /\ IF debounceHook.value = fakeClock.before
             THEN fakeClock.changes = 0
             ELSE /\ fakeClock.changes = 1
                  /\ fakeClock.changedAt = fakeClock.lastUpdateAt + debounceHook.delay

\* three rapid updates with delay 2, the last one made at time 2: the output
\* changed once, at time 4, from "a" to "abc"
C13_Witness ==
    /\ SequenceOver
    /\ fakeClock.updates = 2
    /\ debounceHook.delay = 2
    /\ fakeClock.before = "a"
    /\ debounceHook.debouncedValue = "abc"
    /\ fakeClock.lastUpdateAt = 2
    /\ fakeClock.changedAt = 4
    /\ fakeClock.changes = 1

\* C14: the debounced output is the initial value as soon as the hook is
\* rendered and as long as no update was made; a re-render with another value
\* leaves the output alone, and the output changes only once the delay has
\* fully elapsed since the last update, and then to the latest value, never to
\* an intermediate one.
C14_NoValueExposedEarly ==
    [][/\ \A value \in DebounceValues, delay \in 0..MaxDelay :
             renderHook(value, delay) => debounceHook'.debouncedValue = value
       /\ (debounceHook'.stage = "mounted" /\ fakeClock'.updates = 0)
             => debounceHook'.debouncedValue = debounceHook'.value
       /\ \A value \in DebounceValues :
             rerender(value) => debounceHook'.debouncedValue = debounceHook.debouncedValue
       /\ (debounceHook.stage = "mounted"
             /\ debounceHook'.debouncedValue # debounceHook.debouncedValue)
             => /\ fakeClock'.now >= fakeClock.lastUpdateAt + debounceHook.delay
                /\ debounceHook'.debouncedValue = debounceHook.value]_vars

\* an update to "ab" was made with delay 2 and the clock has advanced by 1
\* since: the timer is pending and the output is still the initial "a"
C14_Witness ==
    /\ debounceHook.stage = "mounted"
    /\ debounceHook.delay = 2
    /\ debounceHook.value = "ab"
    /\ debounceHook.timer.pending
    /\ fakeClock.updates = 1
    /\ fakeClock.lastUpdateAt = 1
    /\ fakeClock.now = 2
    /\ debounceHook.debouncedValue = "a"

\* C15: unmounting the hook clears its pending timer, and from then on no
\* timer is pending and the debounced output never changes, however far the
\* clock advances.
C15_UnmountCancelsTimer ==
    [][/\ unmount => ~debounceHook'.timer.pending
       /\ debounceHook.stage = "unmounted" =>
             /\ debounceHook'.stage = "unmounted"
             /\ ~debounceHook'.timer.pending
             /\ debounceHook'.debouncedValue = debounceHook.debouncedValue]_vars

\* the hook was unmounted with an update to "ab" pending, and the clock is
\* past the time the timer was due: the output is still "a"
C15_Witness ==
    /\ debounceHook.stage = "unmounted"
    /\ debounceHook.value = "ab"
    /\ debounceHook.debouncedValue = "a"
    /\ fakeClock.updates = 1
    /\ ~debounceHook.timer.pending
    /\ fakeClock.now > fakeClock.lastUpdateAt + debounceHook.delay

\* C16: with delay 0 the timer of an update is due at the time of the update,
\* and running the timers without advancing the clock, advanceTimersByTime(0),
\* publishes the value: the output equals it at the same clock time.
C16_ZeroDelaySameTick ==
    [][/\ \A value \in DebounceValues :
             (rerender(value) /\ debounceHook.delay = 0)
                => /\ debounceHook'.timer.pending
                   /\ debounceHook'.timer.due = fakeClock'.now
       /\ (advanceTimersByTime(0) /\ debounceHook.delay = 0
             /\ debounceHook.stage = "mounted")
             => /\ debounceHook'.debouncedValue = debounceHook.value
                /\ ~debounceHook'.timer.pending
                /\ fakeClock'.now = fakeClock.now]_vars

\* with delay 0 an update to "ab" was made at time 1 and published at time 1
C16_Witness ==
    /\ debounceHook.stage = "mounted"
    /\ debounceHook.delay = 0
    /\ fakeClock.updates = 1
    /\ fakeClock.before = "a"
    /\ debounceHook.debouncedValue = "ab"
    /\ fakeClock.lastUpdateAt = 1
    /\ fakeClock.changedAt = 1
    /\ fakeClock.now = 1

(***************************************************************************)
(* Properties of the users fetch as driven by the page                     *)
(***************************************************************************)
\* C17: a keystroke causes no users fetch, every fetch carries the settled
\* (debounced) search text as query, and the debounce timeout that ends a burst
\* of keystrokes causes at most one fetch with a new query.
C17_OneFetchPerBurst ==
    [][/\ \A text \in SearchTexts : handleSearchChange(text) => requested' = <<>>
       /\ \A i \in DOMAIN requested' : requested'[i].query = debouncedSearchQuery'
       /\ DebounceTimeout =>
             Cardinality({i \in DOMAIN requested' :
                             requested'[i].query # debouncedSearchQuery}) <= 1]_vars

\* C18: at most one GET per params tuple is on the network at any time: no
\* query has a fetch in flight while the request of an earlier, cancelled fetch
\* of the same key is still unanswered.
C18_OneRequestPerKey ==
    \A k \in QueryKeys : ~(cache[k].fetching /\ cache[k].superseded)


(***************************************************************************)
(* Properties of the cached pages as the page reads them                   *)
(***************************************************************************)
\* C19: when the page moves useUsers to a params tuple whose page is in the
\* cache, the hook returns that cached page at once: its data is the cached
\* data and it is not in the pending (no data) status, whether or not a
\* background refetch of the key has been started.
C19_CachedKeyServedAtOnce ==
    [][\A k \in QueryKeys, elapsed \in BOOLEAN :
          (SetParams(k, elapsed) /\ cache[k].data.defined) =>
             /\ data' = cache[k].data
             /\ cache'[k].status = cache[k].status
             /\ cache'[k].status # "pending"]_vars

\* the page came back to a key it had loaded before, after the stale time: the
\* cached page is returned while the key is refetched (no mutation and no
\* failed fetch put the key in this state)
C19_Witness ==
    /\ mutation.mutationId = 0
    /\ \A k \in QueryKeys : cache[k].data.defined
    /\ data.defined
    /\ cache[viewKey].fetching
    /\ cache[viewKey].status = "success"
    /\ ~error.isError


AbsentOrUnparsable(tableId) ==
    \/ ~localStorage[StorageKey(tableId)].present
    \/ ~CanParse(localStorage[StorageKey(tableId)].text)

\* C21: for every view identifier, when the storage entry of the view is absent
\* or holds a text that cannot be parsed, the preferences the hook starts with
\* are the default {columnVisibility: {}, sorting: [], density: 'comfortable'}.
C21_LoadFallsBackToDefault ==
    [][\A tableId \in TableIds :
          (useTablePreferences(tableId) /\ AbsentOrUnparsable(tableId)) =>
             /\ tablePrefs'.stage = "mounted"
             /\ tablePrefs'.preferences =
                   [isNull |-> FALSE, columnVisibility |-> [c \in {} |-> TRUE],
                    sorting |-> <<>>, density |-> "comfortable"]]_vars

\* a grid mounted over a truncated entry (the full storage kept the effect
\* from replacing it) and shows the default
C21_Witness ==
    /\ tablePrefs.stage = "mounted"
    /\ localStorage[StorageKey(tablePrefs.tableId)] = Item(TruncatedText)
    /\ tablePrefs.preferences = defaultTablePreferences


\* one of the three updates of the preferences is taken
PreferencesUpdate ==
    \/ \E columnVisibility \in VisibilityStates : updateColumnVisibility(columnVisibility)
    \/ \E sorting \in SortingStates : updateSorting(sorting)
    \/ \E density \in Densities : updateDensity(density)

\* C22: with working storage, after every update of the column visibility, the
\* sorting or the density of a view the entry of the view in the storage
\* denotes the preferences in memory, and a fresh load of the same view
\* identifier returns exactly those preferences.
C22_PreferencesSurviveReload ==
    [][(PreferencesUpdate /\ storageMode = "working") =>
          LET key == StorageKey(tablePrefs.tableId)
          IN /\ localStorage'[key].present
             /\ CanParse(localStorage'[key].text)
             /\ JSONparse(localStorage'[key].text) = tablePrefs'.preferences
             /\ useLocalStorageInit(localStorage', storageMode, key,
                                    defaultTablePreferences).value
                   = tablePrefs'.preferences]_vars

\* preferences with a column visibility, a descending sorting and the spacious
\* density, which no storage starts with, are in memory and in the entry
C22_Witness ==
    /\ storageMode = "working"
    /\ tablePrefs.stage = "mounted"
    /\ tablePrefs.isInitialValue = FALSE
    /\ tablePrefs.preferences.density = "spacious"
    /\ tablePrefs.preferences.sorting = <<[id |-> "name", desc |-> TRUE]>>
    /\ "email" \in DOMAIN tablePrefs.preferences.columnVisibility
    /\ localStorage[StorageKey(tablePrefs.tableId)]
          = Item(JSONstringify(tablePrefs.preferences))


C24_StorageFailureKeepsMemoryContract ==
    [][storageMode = "disabled" =>
          /\ \A columnVisibility \in VisibilityStates :
                updateColumnVisibility(columnVisibility) =>
                   tablePrefs'.preferences.columnVisibility = columnVisibility
          /\ \A sorting \in SortingStates :
                updateSorting(sorting) => tablePrefs'.preferences.sorting = sorting
          /\ \A density \in Densities :
                updateDensity(density) => tablePrefs'.preferences.density = density
          /\ resetPreferences => tablePrefs'.preferences = defaultTablePreferences]_vars


(***************************************************************************)
(* Properties of the network status and of the error classification        *)
(***************************************************************************)
\* C25: from its first render on, the monitor's isOnline is the platform flag
\* read at that render as long as no connectivity event followed, and after
\* events it is true exactly when the latest event was online; isOffline is
\* the negation of isOnline.
C25_MonitorFollowsLatestEvent ==
    monitor.stage # "none" =>
       /\ monitor.lastEvent = "none" => isOnline = navigatorOnLine
       /\ monitor.lastEvent = "online" => isOnline
       /\ monitor.lastEvent = "offline" => ~isOnline
       /\ isOffline = ~isOnline


\* the messages that name a connectivity failure: a network error, a failed
\* fetch, a timeout, an abort or a connection failure, in any letter case
ConnectivityMessages ==
    {FailedToFetch, NetworkDown, NetErrCode, FetchFailedMessage, TimeoutMessage,
     AbortedMessage, ConnectionLost}

\* C26 as stated: with the platform flag false, isNetworkError returns true for
\* every value it is given.
C26_OfflineClassifiesEveryValue ==
    (classified.called /\ ~classified.onLine) => classified.result

\* C26: with the platform flag false, isNetworkError returns true for every
\* error object and every non-empty thrown string, whatever its message; for
\* null and for the empty string (no error) it returns false.
C26_OfflineClassifiesEveryError ==
    (classified.called /\ ~classified.onLine) =>
       (classified.result <=> classified.error.isError)

\* offline, an error whose message names no connectivity failure was
\* classified as a network error
C26_Witness ==
    /\ classified.called
    /\ ~classified.onLine
    /\ classified.error = Error(NotFoundMessage)
    /\ classified.result

RefetchAfterFailure ==
    /\ mutation.phase = "idle"
    /\ mutation.mutationId > 0
    /\ snackbar = "error"
    /\ cache[viewKey].fetching
    /\ cache[viewKey].isInvalidated

\* C28: a failed status update does not take the grid away: a page that shows
\* the grid when the mutation fails shows it in the state that follows, and
\* still shows it when the refetch started by the invalidation of that failure
\* has been answered, successfully or not.
C28_MutationFailureKeepsGrid ==
    [][/\ (MutationFails /\ ShowsGrid) => ShowsGrid'
       /\ (RefetchAfterFailure /\ ShowsGrid /\ FetchResolves(viewKey)) => ShowsGrid']_vars


\* C29: when the fetch of the displayed params has failed, the page shows the
\* offline page exactly when the failure is network-related (isNetworkError of
\* the error, or the monitor reports offline) and the error alert, whose
\* message holds the raw message of the error, otherwise; retry is offered.
C29_FetchFailureScreen ==
    error.isError =>
       /\ Screen = "offline" <=> (isNetworkError(error, navigatorOnLine) \/ ~isOnline)
       /\ Screen # "offline" =>
             /\ Screen = "alert"
             /\ includes(AlertMessage, error.message)
       /\ ENABLED handleRetry

\* a fetch failed with a server error while the monitor reported offline: the
\* offline page is shown
C29_Witness ==
    /\ error = Error(ServerErrorMessage)
    /\ ~isOnline
    /\ Screen = "offline"


\* C30: from the offline page or the error alert, handleRetry starts a fetch of
\* the current params, and when the fetch of the current params succeeds while
\* one of the two is shown, the page shows the grid with the fetched page.
C30_RetryRecovers ==
    [][/\ handleRetry => (viewKey' = viewKey /\ cache'[viewKey].fetching)
       /\ (~ShowsGrid /\ FetchSuccess(viewKey)) =>
             /\ ShowsGrid'
             /\ Screen' = "grid"
             /\ GridRows' = fetchUsers(viewKey, serverStatus).users]_vars

\* the refetch that followed a mutation failed and no other params were ever
\* shown, so only handleRetry can have started the fetch that is in flight
\* while the error is still there
C30_Witness ==
    /\ mutation.mutationId > 0
    /\ mutation.phase = "idle"
    /\ \A k \in QueryKeys : k # viewKey => ~cache[k].exists
    /\ error.isError
    /\ cache[viewKey].fetching

(***************************************************************************)
(* Properties of the components on their own                               *)
(***************************************************************************)
\* C31: the error boundary never throws a fault on to its parent: a fault
\* thrown while the children render moves it to hasError = true and puts the
\* fallback (the custom one, or the default panel) on the screen, and the
\* retry action of the panel moves it back to hasError = false with error and
\* errorInfo null, so that the render that follows returns the children.
C31_BoundaryNeverRethrows ==
    [][/\ ~boundary'.rethrown
       /\ (\E err \in Faults, errorInfo \in ComponentStacks : RenderFault(err, errorInfo)) =>
             /\ boundary'.hasError
             /\ boundary'.error \in Faults
             /\ boundary'.shown = IF boundary.fallback = "none" THEN "panel" ELSE "fallback"
       /\ handleBoundaryRetry =>
             /\ ~boundary'.hasError
             /\ boundary'.error = NoFault
             /\ boundary'.errorInfo = NoFault
             /\ render(boundary') = "children"]_vars

\* the children are on the screen again after two faults, both logged, and two
\* retries
C31_Witness ==
    /\ boundary.shown = "children"
    /\ ~boundary.hasError
    /\ boundary.error = NoFault
    /\ Len(boundary.log) = 4

\* the labels of the elements a renderer produced, in order
Labels(output) == [i \in 1..Len(output.chips) |-> output.chips[i].label]

\* C32: for every non-empty list of groups the chiplist renderer produces one
\* labelled element per group, in the order of the list, whose label is the
\* groupName of that group; for an empty list and for a missing value it
\* produces the 'No groups' placeholder and no element.  Both grids (the
\* current one and the earlier one) are covered.
C32_ChipPerGroupLabelledByName ==
    chipCell.rendered =>
        LET value == chipCell.value.groups
        IN IF ~chipCell.value.defined \/ value = <<>>
           THEN /\ chipCell.output.placeholder = "No groups"
                /\ chipCell.output.chips = <<>>
                /\ chipCell.legacy.placeholder = "No groups"
                /\ chipCell.legacy.chips = <<>>
           ELSE /\ chipCell.output.placeholder = "none"
                /\ Labels(chipCell.output) = [i \in 1..Len(value) |-> value[i].groupName]
                /\ chipCell.legacy.placeholder = "none"
                /\ Labels(chipCell.legacy) = [i \in 1..Len(value) |-> value[i].groupName]

\* the list of the regression test, Admins then Users, rendered as two chips
\* reading Admins and Users
C32_Witness ==
    /\ chipCell.rendered
    /\ Len(chipCell.value.groups) = 2
    /\ chipCell.value.groups[1].groupId = "1"
    /\ chipCell.value.groups[2].groupId = "2"
    /\ Labels(chipCell.output) = << <<"A","d","m","i","n","s">>, <<"U","s","e","r","s">> >>

\* the step calls onToggleStatus(userId, newStatus)
Calls(userId, newStatus) ==
    userActions'.calls = Append(userActions.calls, [status |-> newStatus, userId |-> userId])

\* C33: onToggleStatus(userId, 'inactive') is called only by the confirmation
\* of a dialog that was opened for that user; cancelling the dialog calls
\* nothing; the toggle of an inactive user calls onToggleStatus(userId,
\* 'active') at once and opens no dialog.
C33_DeactivationOnlyAfterConfirmation ==
    [][/\ \A userId \in UserIds :
             Calls(userId, "inactive") =>
                /\ handleConfirmDeactivate
                /\ userActions.confirmDialogOpen
                /\ userActions.openedFor = userId
       /\ handleCancelDialog => userActions'.calls = userActions.calls
       /\ (ToggleClick /\ userActions.user.status = "inactive") =>
             /\ Calls(userActions.user.userId, "active")
             /\ ~userActions'.confirmDialogOpen]_vars

(***************************************************************************)
(* Properties of the status toggle of the page                             *)
(***************************************************************************)
\* C34: when the monitor reports offline, a status toggle starts no mutation:
\* the mutation state, the cache (no optimistic write, no fetch started) and
\* the backend are left as they are, and the notification is the warning.
C34_OfflineToggleIssuesNoMutation ==
    [][\A i \in 1..Len(AllUsers) :
          (handleToggleStatus(i) /\ isOffline) =>
             /\ mutation' = mutation
             /\ cache' = cache
             /\ serverStatus' = serverStatus
             /\ viewKey' = viewKey
             /\ snackbar' = "warning"]_vars

\* the warning is shown while offline and no mutation has ever been built,
\* with rows on the screen
C34_Witness ==
    /\ isOffline
    /\ snackbar = "warning"
    /\ mutation.mutationId = 0
    /\ mutation.phase = "idle"
    /\ Len(GridRows) > 0

(***************************************************************************)
(* Properties of the view state as a whole                                 *)
(***************************************************************************)
\* C35: in every state of the controller, whatever URL the page was opened
\* with, statusFilter is one of all, active, inactive, the page (pageIndex + 1)
\* is an integer of at least 1 and pageSize is a positive integer.
C35_ViewStateWellFormed ==
    /\ statusFilter \in StatusFilters
    /\ ~pagination.pageIndex.nan
    /\ pagination.pageIndex.n + 1 >= 1
    /\ ~pagination.pageSize.nan
    /\ pagination.pageSize.n > 0

(***************************************************************************)
(* Properties of the optimistic write and of the mutations in flight       *)
(***************************************************************************)
\* the page new holds the users of the page old, in the same order and with
\* the same totalCount, and differs at most in the status of the user userId
SameButStatusOf(old, new, userId) ==
    /\ new.defined
    /\ new.totalCount = old.totalCount
    /\ Len(new.users) = Len(old.users)
    /\ \A j \in 1..Len(old.users) :
          IF old.users[j].userId = userId
          THEN [new.users[j] EXCEPT !.status = old.users[j].status] = old.users[j]
          ELSE new.users[j] = old.users[j]

C37_OneMutationInFlight == InFlight <= 1

(***************************************************************************)
(* Properties of the table preferences across views and of the removal     *)
(***************************************************************************)
\* the view whose hook takes the step
ActingTable == IF tablePrefs.stage = "none" THEN tablePrefs'.tableId ELSE tablePrefs.tableId

\* C38: mounting (with the save of its effect), updating or resetting the
\* preferences of one view changes neither the entry of any other view
\* identifier in the storage nor the preferences a load of that other view
\* returns.
C38_PreferencesIsolatedPerView ==
    [][\A other \in TableIds :
          other # ActingTable =>
             /\ localStorage'[StorageKey(other)] = localStorage[StorageKey(other)]
             /\ useLocalStorageInit(localStorage', storageMode', StorageKey(other),
                                    defaultTablePreferences)
                   = useLocalStorageInit(localStorage, storageMode, StorageKey(other),
                                         defaultTablePreferences)]_vars

\* the grid of one view has saved an update (the spacious density) while
\* the entry of the other view holds other preferences
C38_Witness ==
    /\ storageMode = "working"
    /\ tablePrefs.stage = "mounted"
    /\ tablePrefs.lastCall = "update"
    /\ tablePrefs.preferences.density = "spacious"
    /\ localStorage[StorageKey(tablePrefs.tableId)]
          = Item(JSONstringify(tablePrefs.preferences))
    /\ \E other \in TableIds :
          /\ other # tablePrefs.tableId
          /\ localStorage[StorageKey(other)]
                = Item(JSONstringify([defaultTablePreferences EXCEPT !.density = "compact"]))

\* C39: after removeValue (resetPreferences) has run over working storage and
\* the effects it caused have run, the storage holds no entry under the key
\* of the view.
C39_RemoveValueLeavesNoEntry ==
    [][(resetPreferences /\ storageMode = "working") =>
          ~localStorage'[StorageKey(tablePrefs.tableId)].present]_vars

====
